---- MODULE Spec2Model ----
(***************************************************************************)
(* The POD analysis phase of autocxx's engine                               *)
(* (engine/src/conversion/analysis/pod/mod.rs): analyze_pod_apis and the    *)
(* classifiers it dispatches to, over a bounded universe of declarations.   *)
(***************************************************************************)
EXTENDS Naturals, Sequences, FiniteSets, TLC

(***************************************************************************)
(* Bounds of the model.                                                     *)
(***************************************************************************)
\* The longest declaration batch handed to analyze_pod_apis.
MaxApis == 2

(***************************************************************************)
(* Qualified names: a namespace path and a final identifier.                *)
(***************************************************************************)
QN(ns, id) == [ns |-> ns, id |-> id]

nA == QN(<< >>, "A")
nB == QN(<<"ns">>, "B")
nN == QN(<< >>, "Outer_Inner")
nE == QN(<< >>, "E")
nF == QN(<<"ns">>, "f")
nT == QN(<< >>, "T")
nInt == QN(<< >>, "c_int")
nStr == QN(<<"std">>, "string")
nG1 == QN(<< >>, "G1")
nG2 == QN(<< >>, "G2")

\* The generic instantiations the header declares only as templates.
Insts == {nG1, nG2}

\* QualifiedName::get_final_ident and get_namespace.
get_final_ident(qn) == qn.id

get_namespace(qn) == qn.ns

\* ApiName: the qualified name, and whether the C++ name contains "::" after
\* the namespace, which is what is_nested_struct_or_class tests.
ApiName(qn, nested) == [name |-> qn, cpp_nested |-> nested]

is_nested_struct_or_class(name) == name.cpp_nested

(***************************************************************************)
(* Struct fields: an optional identifier and a type.  A type is a path      *)
(* type, a pointer, or an array (which the type converter does not          *)
(* support); qn is the name the type refers to.                             *)
(***************************************************************************)
Fld(ident, tk, qn) == [ident |-> ident, tk |-> tk, qn |-> qn]

\* x, _bas, b_base, v, _base_1, arr, _base, _base_1, (unnamed), q.
fInt == Fld(<<"x">>, "Path", nInt)
fStr == Fld(<<"_", "b", "a", "s">>, "Path", nStr)
fB == Fld(<<"b", "_", "b", "a", "s", "e">>, "Path", nB)
fG1 == Fld(<<"v">>, "Path", nG1)
fG2 == Fld(<<"_", "b", "a", "s", "e", "_", "1">>, "Path", nG2)
fArr == Fld(<<"a", "r", "r">>, "Array", nInt)
fBaseB == Fld(<<"_", "b", "a", "s", "e">>, "Path", nB)
fPtrStr == Fld(<<"_", "b", "a", "s", "e", "_", "1">>, "Ptr", nStr)
fAnon == Fld(<< >>, "Path", nInt)
fPtrG1 == Fld(<<"q">>, "Ptr", nG1)

(***************************************************************************)
(* Declarations (Api<TypedefPhase>, UnanalyzedApi): variant, name, and for  *)
(* a struct its fields and whether it declares a destructor or copy/move    *)
(* constructor of its own; attrs are the attributes the parsing stage left  *)
(* on the item.                                                             *)
(***************************************************************************)
Decl(variant, name, fields, nontrivial) ==
  [variant |-> variant, name |-> name, fields |-> fields, nontrivial |-> nontrivial,
   attrs |-> {"repr_C", "bindgen_original_name"}, phase |-> "TypedefPhase"]

StructDecl(qn, nested, fields, nontrivial) ==
  Decl("Struct", ApiName(qn, nested), fields, nontrivial)

\* A declaration bindgen marked as a template with an unused parameter.
UnusedTemplateParam(d) == [d EXCEPT !.attrs = @ \cup {"bindgen_unused_template_param"}]

\* The struct declarations a batch may hold.
StructsA ==
  { StructDecl(nA, FALSE, fs, FALSE) :
      fs \in { <<fInt>>, <<fB>>, <<fStr>>, <<fPtrG1>>, <<fG1, fArr>>, <<fBaseB, fPtrStr>> } }

StructsB ==
  { StructDecl(nB, FALSE, fs, FALSE) :
      fs \in { << >>, <<fStr>>, <<fG1, fG2>>, <<fArr, fG1>> } }
    \cup { UnusedTemplateParam(StructDecl(nB, FALSE, <<fInt>>, FALSE)) }

StructsN ==
  { StructDecl(nN, TRUE, <<fInt>>, FALSE),
    StructDecl(nN, TRUE, <<fG2, fArr>>, TRUE),
    StructDecl(nN, TRUE, <<fG2, fAnon>>, FALSE),
    UnusedTemplateParam(StructDecl(nN, TRUE, <<fStr>>, FALSE)) }

OtherDecls ==
  { Decl("Enum", ApiName(nE, FALSE), << >>, FALSE),
    UnusedTemplateParam(Decl("Enum", ApiName(nE, FALSE), << >>, FALSE)),
    Decl("Function", ApiName(nF, FALSE), << >>, FALSE),
    Decl("Typedef", ApiName(nT, FALSE), << >>, FALSE) }

BatchDecls == StructsA \cup StructsB \cup StructsN \cup OtherDecls

\* The bodies the header gives the instantiation G1.
G1Bodies == { <<fInt>>, <<fStr>>, <<fG2>>, <<fArr>>, <<fG2, fArr>> }

DeclNames(ds) == { ds[k].name.name : k \in 1..Len(ds) }

StructNames(ds) == { ds[k].name.name : k \in { j \in 1..Len(ds) : ds[j].variant = "Struct" } }

\* Batches: sequences of declarations with pairwise distinct names.
Batches ==
  { b \in UNION { [1..n -> BatchDecls] : n \in 0..MaxApis } :
      \A j, k \in 1..Len(b) : j # k => b[j].name.name # b[k].name.name }

(***************************************************************************)
(* The header's templates: the declaration the type converter synthesises   *)
(* for an instantiation.  tenv gives G1's body and whether G1 declares a     *)
(* destructor; G2 is a plain aggregate, or an alias template whose           *)
(* instantiation the converter declares as a typedef.                        *)
(***************************************************************************)
TEnvs ==
  [g1body : G1Bodies, g1nontrivial : {FALSE}, g2typedef : {FALSE}]
    \cup { [g1body |-> <<fG2>>, g1nontrivial |-> TRUE, g2typedef |-> FALSE],
           [g1body |-> <<fG2>>, g1nontrivial |-> FALSE, g2typedef |-> TRUE] }

\* The configurations: the explicit by-value requests (generate_pod!).
Configs == { [pod_requests |-> rs] : rs \in { {}, {nA} } }

InstDecl(tenv, qn) ==
  [ (IF qn = nG1
       THEN StructDecl(nG1, FALSE, tenv.g1body, tenv.g1nontrivial)
       ELSE IF tenv.g2typedef
         THEN Decl("Typedef", ApiName(qn, FALSE), << >>, FALSE)
         ELSE StructDecl(qn, FALSE, <<fInt>>, FALSE))
    EXCEPT !.phase = "NullPhase" ]

\* The names a struct holds by value: the targets of its path-typed fields.
HeldByValue(fields) == { fields[k].qn : k \in { j \in 1..Len(fields) : fields[j].tk = "Path" } }

(***************************************************************************)
(* ByValueChecker (byvalue_checker.rs).                                     *)
(***************************************************************************)
\* The checker's table for names that are not structs of the batch: the
\* primitive is flat, std::string is not, an instantiation is flat unless it is
\* non-trivial or holds a type that is not flat.
RECURSIVE TableIsPod(_, _)
TableIsPod(tenv, qn) ==
  IF qn = nInt THEN TRUE
  ELSE IF qn \in Insts
    THEN LET d == InstDecl(tenv, qn)
         IN  ~d.nontrivial /\ \A t \in HeldByValue(d.fields) : TableIsPod(tenv, t)
  ELSE FALSE

\* One round of propagation: a struct of the batch is unsafe to hold by value
\* if it is non-trivial or holds by value an unsafe struct of the batch or a
\* name outside the batch that the table does not call flat.
Propagate(apis, tenv, unsafe) ==
  unsafe \cup
  { apis[k].name.name : k \in
      { j \in 1..Len(apis) :
          /\ apis[j].variant = "Struct"
          /\ \/ apis[j].nontrivial
             \/ \E t \in HeldByValue(apis[j].fields) :
                  IF t \in StructNames(apis) THEN t \in unsafe ELSE ~TableIsPod(tenv, t) } }

RECURSIVE UnsafeFixpoint(_, _, _)
UnsafeFixpoint(apis, tenv, unsafe) ==
  LET next == Propagate(apis, tenv, unsafe)
  IN  IF next = unsafe THEN unsafe ELSE UnsafeFixpoint(apis, tenv, next)

\* ByValueChecker::is_pod.
is_pod(byvalue_checker, qn) ==
  IF qn \in byvalue_checker.known
    THEN qn \notin byvalue_checker.unsafe
    ELSE TableIsPod(byvalue_checker.tenv, qn)

\* ByValueChecker::new_from_apis: ok is FALSE when a pod request of the
\* configuration names a type that is not flat.
new_from_apis(apis, config, tenv) ==
  LET checker == [known |-> StructNames(apis),
                  unsafe |-> UnsafeFixpoint(apis, tenv, {}),
                  tenv |-> tenv]
  IN  [ok |-> \A r \in config.pod_requests : is_pod(checker, r), checker |-> checker]

(***************************************************************************)
(* TypeConverter (type_converter.rs): the names it can resolve and the      *)
(* instantiations it has already concretised.                               *)
(***************************************************************************)
\* calls is the trail of the convert_type calls made on this converter.
TypeConverter_new(config, apis, tenv) ==
  [known |-> DeclNames(apis), concrete_templates |-> {}, tenv |-> tenv, calls |-> << >>]

\* add_analysis: lifts a declaration the converter made into the phase the
\* classifiers take, with no analysis attached.
add_analysis(api) == [api EXCEPT !.phase = "TypedefPhase"]

\* TypeConverter::convert_type on the type of field f, found in namespace ns:
\* an array is unsupported, a name that is neither declared nor known is not
\* found; an instantiation not yet declared or concretised yields its
\* declaration as an extra api, once.
convert_type(type_converter, f, ns) ==
  LET novel == /\ f.qn \in Insts
               /\ f.qn \notin type_converter.concrete_templates
               /\ f.qn \notin type_converter.known
      ok == /\ f.tk # "Array"
            /\ f.qn \in {nInt, nStr} \cup Insts \cup type_converter.known
      extra == IF ok /\ novel THEN <<InstDecl(type_converter.tenv, f.qn)>> ELSE << >>
      types == IF ok /\ f.qn # nInt THEN {f.qn} ELSE {}
      templates == IF ok /\ f.qn \in Insts
                     THEN type_converter.concrete_templates \cup {f.qn}
                     ELSE type_converter.concrete_templates
  IN  [ok |-> ok,
       type_converter |->
         [type_converter EXCEPT
            !.concrete_templates = templates,
            !.calls = Append(@, [f |-> f, ns |-> ns, ok |-> ok,
                                 extra_apis |-> extra, types_encountered |-> types])],
       extra_apis |-> extra,
       types_encountered |-> types]

(***************************************************************************)
(* The classifiers of pod/mod.rs.                                           *)
(***************************************************************************)
\* remove_bindgen_attrs returns an error (the `?` of lines 111 and 123) for
\* a declaration marked as having an unused template parameter.
remove_bindgen_attrs_ok(item) == "bindgen_unused_template_param" \notin item.attrs

\* remove_bindgen_attrs: strips the attributes the parsing stage added.
remove_bindgen_attrs(item) ==
  [item EXCEPT !.attrs = { a \in @ : a \notin {"bindgen_original_name"} }]

NoAnalysis == [kind |-> "none", bases |-> {}, field_deps |-> {}]

\* An entry of the result vector: Api<PodPhase>.  ctx is the error context of
\* an IgnoredItem and empty otherwise.
ApiEntry(variant, name, item, analysis, ctx) ==
  [variant |-> variant, name |-> name, item |-> [item EXCEPT !.phase = "PodPhase"],
   analysis |-> analysis, ctx |-> ctx]

\* get_bases: the type names of the path-typed fields whose identifier starts
\* with "_base".
StartsWithBase(ident) ==
  Len(ident) >= 5 /\ SubSeq(ident, 1, 5) = <<"_", "b", "a", "s", "e">>

\* Mutant of get_bases: the type of the field is not looked at.
get_bases_of_any_type(item) ==
  { item.fields[k].qn : k \in
      { j \in 1..Len(item.fields) :
          /\ item.fields[j].ident # << >>
          /\ StartsWithBase(item.fields[j].ident) } }

get_bases(item) ==
  { item.fields[k].qn : k \in
      { j \in 1..Len(item.fields) :
          /\ item.fields[j].tk = "Path"
          /\ item.fields[j].ident # << >>
          /\ StartsWithBase(item.fields[j].ident) } }

\* Mutant of extend_deps: the names are recorded only with a new declaration.
extend_deps_only_when_novel(deps, annotated) ==
  IF annotated.extra_apis # << >> THEN deps \cup annotated.types_encountered ELSE deps

\* Mutant of extend_extra_apis: the side list is assigned, not extended.
extend_extra_apis_overwriting(extra_apis, annotated) == annotated.extra_apis

\* Line 163: extra_apis.extend(annotated.extra_apis).
extend_extra_apis(extra_apis, annotated) == extra_apis \o annotated.extra_apis

\* Line 164: deps.extend(annotated.types_encountered).
extend_deps(deps, annotated) == deps \cup annotated.types_encountered

\* get_struct_field_types from field k on: converts each field in turn,
\* extending extra_apis and deps, and stops at the first conversion error.
RECURSIVE FieldTypesFrom(_, _, _, _, _, _), FieldTypesAfter(_, _, _, _, _, _)

\* Lines 161-164: what convert_type returned for field k is annotated; the
\* `?` returns its error, otherwise both lists are extended and the loop goes
\* on.
FieldTypesAfter(annotated, ns, s, deps, extra_apis, k) ==
  IF ~annotated.ok
    THEN [ok |-> FALSE, type_converter |-> annotated.type_converter,
          deps |-> deps, extra_apis |-> extra_apis]
    ELSE FieldTypesFrom(annotated.type_converter, ns, s,
                        extend_deps(deps, annotated),
                        extend_extra_apis(extra_apis, annotated), k + 1)

FieldTypesFrom(type_converter, ns, s, deps, extra_apis, k) ==
  IF k > Len(s.fields)
    THEN [ok |-> TRUE, type_converter |-> type_converter,
          deps |-> deps, extra_apis |-> extra_apis]
    ELSE FieldTypesAfter(convert_type(type_converter, s.fields[k], ns),
                         ns, s, deps, extra_apis, k)

\* Mutant of get_struct_field_types: a failure takes back what the earlier
\* fields added to the side list.
get_struct_field_types_undoing(type_converter, ns, s, deps, extra_apis) ==
  LET r == FieldTypesFrom(type_converter, ns, s, deps, extra_apis, 1)
  IN  IF r.ok THEN r ELSE [r EXCEPT !.extra_apis = extra_apis]

get_struct_field_types(type_converter, ns, s, deps, extra_apis) ==
  FieldTypesFrom(type_converter, ns, s, deps, extra_apis, 1)

\* Mutant of NonPodKind: the two kinds are exchanged.
NonPodKind_swapped(name) == IF is_nested_struct_or_class(name) THEN "NonPod" ELSE "NonPodNested"

\* The kind of a struct the checker does not call flat.
NonPodKind(name) == IF is_nested_struct_or_class(name) THEN "NonPodNested" ELSE "NonPod"

\* Mutant of analyze_struct: the checker is not asked.
analyze_struct_unchecked(byvalue_checker, type_converter, extra_apis, name, item) ==
  LET stripped == remove_bindgen_attrs(item)
      r == get_struct_field_types(type_converter, get_namespace(name.name),
                                  stripped, {}, extra_apis)
  IN  IF ~remove_bindgen_attrs_ok(item)
        THEN [ok |-> FALSE, apis |-> << >>, ctx |-> get_final_ident(name.name),
              type_converter |-> type_converter,
              extra_apis |-> extra_apis,
              pod_queries |-> << >>]
      ELSE IF r.ok
        THEN [ok |-> TRUE,
              apis |-> <<ApiEntry("Struct", name, stripped,
                         [kind |-> "Pod", bases |-> get_bases(stripped),
                          field_deps |-> r.deps], "")>>,
              ctx |-> "",
              type_converter |-> r.type_converter,
              extra_apis |-> r.extra_apis,
              pod_queries |-> << >>]
        ELSE [ok |-> FALSE, apis |-> << >>, ctx |-> get_final_ident(name.name),
              type_converter |-> r.type_converter,
              extra_apis |-> r.extra_apis,
              pod_queries |-> << >>]

\* Mutant of analyze_struct: the fields are converted before the checker is
\* asked, for every struct.
analyze_struct_converting_first(byvalue_checker, type_converter, extra_apis, name, item) ==
  LET id == get_final_ident(name.name)
      stripped == remove_bindgen_attrs(item)
      bases == get_bases(stripped)
      r == get_struct_field_types(type_converter, get_namespace(name.name),
                                  stripped, {}, extra_apis)
  IN  IF ~remove_bindgen_attrs_ok(item)
        THEN [ok |-> FALSE, apis |-> << >>, ctx |-> id,
              type_converter |-> type_converter,
              extra_apis |-> extra_apis,
              pod_queries |-> << >>]
      ELSE IF ~r.ok
        THEN [ok |-> FALSE, apis |-> << >>, ctx |-> id,
              type_converter |-> r.type_converter,
              extra_apis |-> r.extra_apis,
              pod_queries |-> << >>]
      ELSE [ok |-> TRUE,
            apis |-> <<ApiEntry("Struct", name, stripped,
                       [kind |-> IF is_pod(byvalue_checker, name.name)
                                   THEN "Pod" ELSE NonPodKind(name),
                        bases |-> bases,
                        field_deps |-> IF is_pod(byvalue_checker, name.name)
                                         THEN r.deps ELSE {}], "")>>,
            ctx |-> "",
            type_converter |-> r.type_converter,
            extra_apis |-> r.extra_apis,
            pod_queries |-> <<name.name>>]

\* Lines 128-150, the is_pod branch: r is what get_struct_field_types
\* returned, its error the error of the struct.
\* analyze_struct: ok with the one Struct api it yields, or the error context;
\* type_converter and extra_apis are the caller's, as the call leaves them,
\* and pod_queries are the names it asked the checker about (line 126).
pod_struct(name, stripped, bases, id, r) ==
  IF r.ok
    THEN [ok |-> TRUE,
          apis |-> <<ApiEntry("Struct", name, stripped,
                     [kind |-> "Pod", bases |-> bases,
                      field_deps |-> r.deps], "")>>,
          ctx |-> "",
          type_converter |-> r.type_converter,
          extra_apis |-> r.extra_apis,
          pod_queries |-> <<name.name>>]
    ELSE [ok |-> FALSE, apis |-> << >>, ctx |-> id,
          type_converter |-> r.type_converter,
          extra_apis |-> r.extra_apis,
          pod_queries |-> <<name.name>>]

analyze_struct(byvalue_checker, type_converter, extra_apis, name, item) ==
  LET id == get_final_ident(name.name)
      stripped == remove_bindgen_attrs(item)
      bases == get_bases(stripped)
  IN  IF ~remove_bindgen_attrs_ok(item)
        THEN [ok |-> FALSE, apis |-> << >>, ctx |-> id,
              type_converter |-> type_converter,
              extra_apis |-> extra_apis,
              pod_queries |-> << >>]
      ELSE IF is_pod(byvalue_checker, name.name)
        THEN pod_struct(name, stripped, bases, id,
                        get_struct_field_types(type_converter, get_namespace(name.name),
                                               stripped, {}, extra_apis))
        ELSE [ok |-> TRUE,
              apis |-> <<ApiEntry("Struct", name, stripped,
                         [kind |-> NonPodKind(name), bases |-> bases,
                          field_deps |-> {}], "")>>,
              ctx |-> "",
              type_converter |-> type_converter,
              extra_apis |-> extra_apis,
              pod_queries |-> <<name.name>>]

\* Mutant of analyze_enum: the enum is passed on whatever the removal of its
\* attributes returns.
analyze_enum_infallible(name, item) ==
  [ok |-> TRUE,
   apis |-> <<ApiEntry("Enum", name, remove_bindgen_attrs(item), NoAnalysis, "")>>,
   ctx |-> ""]

\* analyze_enum: strips the attributes and passes the enum on, or returns
\* the error of remove_bindgen_attrs (line 111).
analyze_enum(name, item) ==
  IF remove_bindgen_attrs_ok(item)
    THEN [ok |-> TRUE,
          apis |-> <<ApiEntry("Enum", name, remove_bindgen_attrs(item), NoAnalysis, "")>>,
          ctx |-> ""]
    ELSE [ok |-> FALSE, apis |-> << >>, ctx |-> get_final_ident(name.name)]

\* Api::fun_unchanged and Api::typedef_unchanged.
fun_unchanged(name, item) ==
  [ok |-> TRUE, apis |-> <<ApiEntry("Function", name, item, NoAnalysis, "")>>, ctx |-> ""]

typedef_unchanged(name, item) ==
  [ok |-> TRUE, apis |-> <<ApiEntry("Typedef", name, item, NoAnalysis, "")>>, ctx |-> ""]

\* The placeholder item of an IgnoredItem entry.
NoItem == Decl("None", ApiName(QN(<< >>, ""), FALSE), << >>, FALSE)

\* One iteration of convert_apis (error_reporter.rs) with the closures
\* analyze_pod_apis passes: the declaration goes to the classifier of its
\* variant; what the classifier yields (r) is appended to results, and an
\* error becomes an IgnoredItem entry carrying the error context.
push_result(api, results, r) ==
  [results |->
     IF r.ok THEN results \o r.apis
     ELSE Append(results,
                 ApiEntry("IgnoredItem", api.name, NoItem, NoAnalysis, r.ctx)),
   type_converter |-> r.type_converter,
   extra_apis |-> r.extra_apis,
   pod_queries |-> r.pod_queries]

convert_one(api, results, byvalue_checker, type_converter, extra_apis) ==
  push_result(api, results,
    IF api.variant = "Struct"
      THEN analyze_struct(byvalue_checker, type_converter, extra_apis,
                          api.name, api)
      ELSE [type_converter |-> type_converter, extra_apis |-> extra_apis,
            pod_queries |-> << >>]
           @@ (IF api.variant = "Enum" THEN analyze_enum(api.name, api)
               ELSE IF api.variant = "Function" THEN fun_unchanged(api.name, api)
               ELSE typedef_unchanged(api.name, api)))

(***************************************************************************)
(* analyze_pod_apis as a state machine.                                     *)
(***************************************************************************)
VARIABLES
  apis,             \* the declaration batch (argument)
  config,           \* the configuration (argument)
  tenv,             \* the templates of the header
  pc,               \* where analyze_pod_apis is
  byvalue_checker,  \* the checker built at the start
  type_converter,   \* the one type converter of the run
  results,          \* the result vector
  extra_apis,       \* declarations discovered in pass one
  batch2,           \* the lifted extra apis, the batch of pass two
  more_extra_apis,  \* declarations discovered in pass two
  i,                \* the next declaration of the current pass
  ret,              \* what analyze_pod_apis returned
  dispatched,       \* history: each dispatch, with the convert_type calls it made
  first,            \* what the previous call of analyze_pod_apis returned
  work              \* classifications under way, when a pass runs in any order

\* The directive parser (parser/src/config.rs).
VARIABLES
  allowlist,        \* the Allowlist of the configuration
  cpp_config,       \* the other fields of IncludeCppConfig
  cfg_pc,           \* where the configuration is: parsing, parsed, complete...
  directives,       \* history: the directives parsed and the call of
                    \* confirm_complete, each with its outcome
  asked             \* the last answer of is_on_allowlist / bindgen_allowlist

\* The other parts of the program, each with its state in one record.
VARIABLES
  safety,           \* Parse for UnsafePolicy: input, cursor, result
  builder,          \* Builder::new of the build crate
  cpplist           \* CppList of find_cpp_calls.rs and the item it searches

pod_vars == <<apis, config, tenv, pc, byvalue_checker, type_converter, results,
              extra_apis, batch2, more_extra_apis, i, ret, dispatched, first, work>>

config_vars == <<allowlist, cpp_config, cfg_pc, directives, asked>>

\* The variables of the other parts of the program, which analyze_pod_apis
\* leaves alone.
beyond == <<config_vars, safety, builder, cpplist>>

\* What the directive parser and the configuration leave alone.
outside_config == <<pod_vars, safety, builder, cpplist>>

vars == <<pod_vars, config_vars, safety, builder, cpplist>>

inputs == <<apis, config, tenv>>

\* What the sequential run of one call leaves alone.
aside == <<first, work>>

NoReturn == [tag |-> "none", value |-> << >>]

\* IncludeCppConfig as Parse for IncludeCppConfig starts it (lines 150-160).
Allowlist_default == [tag |-> "Unspecified", list |-> << >>]

NewCppConfig ==
  [pod_requests |-> << >>, blocklist |-> << >>, exclude_utilities |-> FALSE,
   mod_name |-> "", subclasses |-> << >>, extern_rust_funs |-> << >>]

NoAnswer ==
  [name |-> "", at |-> "", panic |-> FALSE, on |-> FALSE,
   bindgen |-> [tag |-> "", items |-> << >>], must |-> << >>]

\* A part that is not running.
Idle == [pc |-> "idle"]

\* No configuration is being parsed.
ConfigIdle ==
  /\ allowlist = Allowlist_default
  /\ cpp_config = NewCppConfig
  /\ cfg_pc = "idle"
  /\ directives = << >>
  /\ asked = NoAnswer

Init ==
  /\ ConfigIdle
  /\ safety = Idle
  /\ builder = Idle
  /\ cpplist = Idle
  /\ apis \in Batches
  /\ config \in Configs
  /\ tenv \in TEnvs
  /\ pc = "start"
  /\ byvalue_checker = [known |-> {}, unsafe |-> {}, tenv |-> tenv]
  /\ type_converter = TypeConverter_new(config, << >>, tenv)
  /\ results = << >>
  /\ extra_apis = << >>
  /\ batch2 = << >>
  /\ more_extra_apis = << >>
  /\ i = 1
  /\ ret = NoReturn
  /\ dispatched = << >>
  /\ first = NoReturn
  /\ work = << >>

\* The record of one dispatch: the pass, the declaration, the convert_type
\* calls made during it, the entries it added to results, the names it
\* asked the checker about and the declarations it added to the side list.
DispatchRecord(pass, api, before, r, added, extra_before) ==
  [pass |-> pass, api |-> api,
   calls |-> SubSeq(r.type_converter.calls, Len(before.calls) + 1,
                    Len(r.type_converter.calls)),
   added |-> added,
   pod_queries |-> r.pod_queries,
   discovered |-> SubSeq(r.extra_apis, Len(extra_before) + 1, Len(r.extra_apis))]

\* Mutant of BuildChecker: the error of the checker's construction is dropped.
BuildChecker_ignoring_error ==
  /\ pc = "start"
  /\ byvalue_checker' = new_from_apis(apis, config, tenv).checker
  /\ type_converter' = TypeConverter_new(config, apis, tenv)
  /\ pc' = "pass1"
  /\ results' = << >>
  /\ extra_apis' = << >>
  /\ i' = 1
  /\ UNCHANGED <<inputs, beyond, aside, batch2, more_extra_apis, ret, dispatched>>

\* Mutant of BuildChecker: the type converter outlives the call, and keeps the
\* instantiations it has concretised.
BuildChecker_reusing_converter ==
  /\ pc = "start"
  /\ LET c == new_from_apis(apis, config, tenv)
     IN  IF c.ok
           THEN /\ byvalue_checker' = c.checker
                /\ type_converter' =
                     [TypeConverter_new(config, apis, tenv) EXCEPT
                        !.concrete_templates = type_converter.concrete_templates]
                /\ pc' = "pass1"
                /\ ret' = ret
           ELSE /\ pc' = "done"
                /\ ret' = [tag |-> "Err", value |-> << >>]
                /\ UNCHANGED <<byvalue_checker, type_converter>>
  /\ results' = << >>
  /\ extra_apis' = << >>
  /\ i' = 1
  /\ UNCHANGED <<inputs, beyond, aside, batch2, more_extra_apis, dispatched>>

\* Lines 63-66: the checker is built over the whole batch; a failure returns
\* the configuration error at once.
BuildChecker ==
  /\ pc = "start"
  /\ LET c == new_from_apis(apis, config, tenv)
     IN  IF c.ok
           THEN /\ byvalue_checker' = c.checker
                /\ type_converter' = TypeConverter_new(config, apis, tenv)
                /\ pc' = "pass1"
                /\ ret' = ret
           ELSE /\ pc' = "done"
                /\ ret' = [tag |-> "Err", value |-> << >>]
                /\ UNCHANGED <<byvalue_checker, type_converter>>
  /\ results' = << >>
  /\ extra_apis' = << >>
  /\ i' = 1
  /\ UNCHANGED <<inputs, beyond, aside, batch2, more_extra_apis, dispatched>>

\* Mutant of PassOneStep: an error of a classifier is propagated and ends
\* the run.
PassOneStep_propagating_error ==
  /\ pc = "pass1"
  /\ i <= Len(apis)
  /\ LET r == convert_one(apis[i], results, byvalue_checker, type_converter, extra_apis)
         failed == r.results[Len(r.results)].variant = "IgnoredItem"
     IN  /\ results' = r.results
         /\ type_converter' = r.type_converter
         /\ extra_apis' = r.extra_apis
         /\ dispatched' = Append(dispatched,
              DispatchRecord(1, apis[i], type_converter, r,
                             SubSeq(r.results, Len(results) + 1, Len(r.results)),
                             extra_apis))
         /\ pc' = IF failed THEN "done" ELSE pc
         /\ ret' = IF failed THEN [tag |-> "Err", value |-> << >>] ELSE ret
  /\ i' = i + 1
  /\ UNCHANGED <<inputs, beyond, aside, byvalue_checker, batch2, more_extra_apis>>

\* What one iteration of convert_apis leaves: r is what convert_one gave for
\* the declaration api; side is the side list handed to the pass.
Dispatched(pass, api, r, side) ==
  /\ results' = r.results
  /\ type_converter' = r.type_converter
  /\ IF pass = 1 THEN extra_apis' = r.extra_apis ELSE more_extra_apis' = r.extra_apis
  /\ dispatched' = Append(dispatched,
       DispatchRecord(pass, api, type_converter, r,
                      SubSeq(r.results, Len(results) + 1, Len(r.results)),
                      side))

\* Lines 67-82: one declaration of the batch goes through convert_apis.
PassOneStep ==
  /\ pc = "pass1"
  /\ i <= Len(apis)
  /\ Dispatched(1, apis[i],
                convert_one(apis[i], results, byvalue_checker, type_converter, extra_apis),
                extra_apis)
  /\ i' = i + 1
  /\ UNCHANGED <<inputs, beyond, aside, pc, byvalue_checker, batch2, more_extra_apis, ret>>

\* Mutant of LiftExtraApis: the first discovered declaration is lost.
LiftExtraApis_dropping_first ==
  /\ pc = "pass1"
  /\ i > Len(apis)
  /\ batch2' = [k \in 1..(Len(extra_apis) - 1) |-> add_analysis(extra_apis[k + 1])]
  /\ more_extra_apis' = << >>
  /\ pc' = "pass2"
  /\ i' = 1
  /\ UNCHANGED <<inputs, beyond, aside, byvalue_checker, type_converter, results, extra_apis,
                 ret, dispatched>>

\* Mutant of LiftExtraApis: pass two runs over the discovered declarations
\* and over the batch again.
LiftExtraApis_and_batch ==
  /\ pc = "pass1"
  /\ i > Len(apis)
  /\ batch2' = [k \in 1..Len(extra_apis) |-> add_analysis(extra_apis[k])] \o apis
  /\ more_extra_apis' = << >>
  /\ pc' = "pass2"
  /\ i' = 1
  /\ UNCHANGED <<inputs, beyond, aside, byvalue_checker, type_converter, results, extra_apis,
                 ret, dispatched>>

\* Lines 85-86: the discovered declarations are lifted and become the batch
\* of pass two.
LiftExtraApis ==
  /\ pc = "pass1"
  /\ i > Len(apis)
  /\ batch2' = [k \in 1..Len(extra_apis) |-> add_analysis(extra_apis[k])]
  /\ more_extra_apis' = << >>
  /\ pc' = "pass2"
  /\ i' = 1
  /\ UNCHANGED <<inputs, beyond, aside, byvalue_checker, type_converter, results, extra_apis,
                 ret, dispatched>>

\* Mutant of PassTwoStep: pass two collects into a vector of its own, which
\* replaces the results.
PassTwoStep_fresh_results ==
  /\ pc = "pass2"
  /\ i <= Len(batch2)
  /\ LET r == convert_one(batch2[i], << >>, byvalue_checker, type_converter,
                          more_extra_apis)
     IN  /\ results' = r.results
         /\ type_converter' = r.type_converter
         /\ more_extra_apis' = r.extra_apis
         /\ dispatched' = Append(dispatched,
              DispatchRecord(2, batch2[i], type_converter, r, r.results,
                             more_extra_apis))
  /\ i' = i + 1
  /\ UNCHANGED <<inputs, beyond, aside, pc, byvalue_checker, extra_apis, batch2, ret>>

\* Lines 87-102: one discovered declaration goes through convert_apis.
PassTwoStep ==
  /\ pc = "pass2"
  /\ i <= Len(batch2)
  /\ Dispatched(2, batch2[i],
                convert_one(batch2[i], results, byvalue_checker, type_converter,
                            more_extra_apis),
                more_extra_apis)
  /\ i' = i + 1
  /\ UNCHANGED <<inputs, beyond, aside, pc, byvalue_checker, extra_apis, batch2, ret>>

\* Mutant of AssertAndReturn: the assertion is left out.
AssertAndReturn_unasserted ==
  /\ pc = "pass2"
  /\ i > Len(batch2)
  /\ pc' = "done"
  /\ ret' = [tag |-> "Ok", value |-> results]
  /\ UNCHANGED <<inputs, beyond, aside, byvalue_checker, type_converter, results, extra_apis,
                 batch2, more_extra_apis, i, dispatched>>

\* Lines 103-104: the assertion, then Ok(results).
AssertAndReturn ==
  /\ pc = "pass2"
  /\ i > Len(batch2)
  /\ pc' = "done"
  /\ ret' = IF more_extra_apis = << >>
              THEN [tag |-> "Ok", value |-> results]
              ELSE [tag |-> "panic", value |-> << >>]
  /\ UNCHANGED <<inputs, beyond, aside, byvalue_checker, type_converter, results, extra_apis,
                 batch2, more_extra_apis, i, dispatched>>

Next ==
  \/ BuildChecker
  \/ PassOneStep
  \/ LiftExtraApis
  \/ PassTwoStep
  \/ AssertAndReturn

Spec == Init /\ [][Next]_vars

(***************************************************************************)
(* A second call of analyze_pod_apis with the same arguments.  What the     *)
(* first call returned is kept aside; the locals of the first call are      *)
(* dead, and the second call sets up its own as it goes.                    *)
(***************************************************************************)
CallAgain ==
  /\ pc = "done"
  /\ first = NoReturn
  /\ first' = ret
  /\ ret' = NoReturn
  /\ dispatched' = << >>
  /\ pc' = "start"
  /\ UNCHANGED <<inputs, beyond, work, byvalue_checker, type_converter, results, extra_apis,
                 batch2, more_extra_apis, i>>

NextTwice == Next \/ CallAgain

SpecTwice == Init /\ [][NextTwice]_vars

(***************************************************************************)
(* A pass run in any order.  The declarations of the current pass are       *)
(* classified by the same classifiers in any order, and the fields of the   *)
(* structs under classification are converted in any interleaving, each     *)
(* convert_type call having the one type converter to itself.  i counts the *)
(* declarations of the pass that are classified.                            *)
(***************************************************************************)
PassNo == IF pc = "pass1" THEN 1 ELSE 2

CurrentBatch == IF pc = "pass1" THEN apis ELSE batch2

\* The entry is added to the results, and the declaration is classified.
Conclude(key, entry) ==
  /\ results' = Append(results, entry)
  /\ work' = (key :> [st |-> "done", k |-> 0, deps |-> {}]) @@ work
  /\ i' = i + 1

\* The struct of the pass that keeps its attributes' removal (line 123),
\* that the checker calls flat and that has fields: its
\* fields are converted one by one (line 160).
HasFieldsToConvert(api) ==
  /\ api.variant = "Struct"
  /\ remove_bindgen_attrs_ok(api)
  /\ is_pod(byvalue_checker, api.name.name)
  /\ api.fields # << >>

\* The position of a declaration of the pass: the next field to convert and
\* the field_deps gathered so far.
WorkOf(n) ==
  IF <<PassNo, n>> \in DOMAIN work
    THEN work[<<PassNo, n>>]
    ELSE [st |-> "run", k |-> 1, deps |-> {}]

\* Lines 67-82 and 122-141: a declaration with no field to convert is
\* classified in one step: an enum, function or typedef is passed on, a
\* struct the checker does not call flat gets its kind, a flat struct with
\* no field is Pod.
TakeUp(n) ==
  /\ pc \in {"pass1", "pass2"}
  /\ n \in 1..Len(CurrentBatch)
  /\ <<PassNo, n>> \notin DOMAIN work
  /\ ~HasFieldsToConvert(CurrentBatch[n])
  /\ Conclude(<<PassNo, n>>,
       convert_one(CurrentBatch[n], << >>, byvalue_checker, type_converter, << >>).results[1])
  /\ UNCHANGED <<inputs, beyond, first, pc, byvalue_checker, type_converter, extra_apis,
                 batch2, more_extra_apis, ret, dispatched>>

\* Lines 160-165: the next field of a struct is converted.  An error ends
\* the classification of the struct with its error entry (line 135); after
\* the last field the struct is Pod (lines 136 and 142-150).
ConvertField(n) ==
  /\ pc \in {"pass1", "pass2"}
  /\ n \in 1..Len(CurrentBatch)
  /\ HasFieldsToConvert(CurrentBatch[n])
  /\ WorkOf(n).st = "run"
  /\ LET api == CurrentBatch[n]
         w == WorkOf(n)
         annotated == convert_type(type_converter, api.fields[w.k],
                                   get_namespace(api.name.name))
         deps == extend_deps(w.deps, annotated)
         stripped == remove_bindgen_attrs(api)
     IN  /\ type_converter' = annotated.type_converter
         /\ IF annotated.ok
              THEN /\ IF pc = "pass1"
                        THEN /\ extra_apis' = extend_extra_apis(extra_apis, annotated)
                             /\ UNCHANGED more_extra_apis
                        ELSE /\ more_extra_apis' = extend_extra_apis(more_extra_apis, annotated)
                             /\ UNCHANGED extra_apis
                   /\ IF w.k < Len(api.fields)
                        THEN /\ work' = (<<PassNo, n>> :>
                                          [st |-> "run", k |-> w.k + 1, deps |-> deps]) @@ work
                             /\ UNCHANGED <<results, i>>
                        ELSE Conclude(<<PassNo, n>>,
                               ApiEntry("Struct", api.name, stripped,
                                        [kind |-> "Pod", bases |-> get_bases(stripped),
                                         field_deps |-> deps], ""))
              ELSE /\ Conclude(<<PassNo, n>>,
                        ApiEntry("IgnoredItem", api.name, NoItem, NoAnalysis,
                                 get_final_ident(api.name.name)))
                   /\ UNCHANGED <<extra_apis, more_extra_apis>>
  /\ UNCHANGED <<inputs, beyond, first, pc, byvalue_checker, batch2, ret, dispatched>>

NextAnyOrder ==
  \/ BuildChecker
  \/ \E n \in 1..Len(CurrentBatch) : TakeUp(n)
  \/ \E n \in 1..Len(CurrentBatch) : ConvertField(n)
  \/ LiftExtraApis
  \/ AssertAndReturn

\* The batches of structs, with no by-value request: the other declarations
\* touch neither the checker nor the type converter, and a request the
\* checker refuses ends the run before the first pass.
InitAnyOrder ==
  /\ Init
  /\ config.pod_requests = {}
  /\ \A k \in 1..Len(apis) : apis[k].variant = "Struct"

SpecAnyOrder == InitAnyOrder /\ [][NextAnyOrder]_vars

\* The run in input order, as a value: a pass is convert_one over the batch
\* from left to right.
RECURSIVE RunPass(_, _, _, _, _)
RunPass(batch, n, res, converter, extra) ==
  IF n > Len(batch)
    THEN [results |-> res, type_converter |-> converter, extra_apis |-> extra]
    ELSE LET r == convert_one(batch[n], res, byvalue_checker, converter, extra)
         IN  RunPass(batch, n + 1, r.results, r.type_converter, r.extra_apis)

InOrderPassOne ==
  RunPass(apis, 1, << >>, TypeConverter_new(config, apis, tenv), << >>)

InOrderPassTwo ==
  LET one == InOrderPassOne
  IN  RunPass([k \in 1..Len(one.extra_apis) |-> add_analysis(one.extra_apis[k])], 1,
              one.results, one.type_converter, << >>)

(***************************************************************************)
(* The directive parser and the configuration (parser/src/config.rs).       *)
(***************************************************************************)
\* analyze_pod_apis is not running.
PodIdle ==
  /\ apis = << >>
  /\ config = [pod_requests |-> {}]
  /\ tenv = [g1body |-> <<fInt>>, g1nontrivial |-> FALSE, g2typedef |-> FALSE]
  /\ pc = "idle"
  /\ byvalue_checker = [known |-> {}, unsafe |-> {}, tenv |-> tenv]
  /\ type_converter = TypeConverter_new(config, << >>, tenv)
  /\ results = << >>
  /\ extra_apis = << >>
  /\ batch2 = << >>
  /\ more_extra_apis = << >>
  /\ i = 1
  /\ ret = NoReturn
  /\ dispatched = << >>
  /\ first = NoReturn
  /\ work = << >>

\* The longest directive list.
MaxDirectives == 3

\* The directives of the include_cpp! block that reach the allow-list, the
\* by-value requests, the block-list, the subclasses, the module name and
\* the utilities.
Directive(kind, arg, arg2) == [kind |-> kind, arg |-> arg, arg2 |-> arg2]

Directives ==
  { Directive("generate", "A", ""), Directive("generate_pod", "A", ""), Directive("pod", "B", ""),
    Directive("block", "A", ""), Directive("subclass", "Base", "Sub"),
    Directive("generate_all", "", ""), Directive("name", "m", ""),
    Directive("exclude_utilities", "", "") }

\* The names is_on_allowlist is asked about.
CppNames ==
  { "A", "B", "C", "Sub", "SubCpp", "SubHolder", "Base", "rfun",
    "autocxx_make_string_default", "autocxx_make_string_m" }

\* Mutant of Allowlist_push: a name is accepted after generate_all.
Allowlist_push_after_all(self, item) ==
  [ok |-> TRUE, self |-> [tag |-> "Specific", list |-> Append(self.list, item)]]

\* Allowlist::push (lines 70-88).
Allowlist_push(self, item) ==
  IF self.tag = "Unspecified"
    THEN [ok |-> TRUE, self |-> [tag |-> "Specific", list |-> Append(self.list, item)]]
  ELSE IF self.tag = "All"
    THEN [ok |-> FALSE, self |-> self]
  ELSE [ok |-> TRUE, self |-> [self EXCEPT !.list = Append(@, item)]]

\* Allowlist::set_all (lines 90-99).
Allowlist_set_all(self) ==
  IF self.tag = "Specific"
    THEN [ok |-> FALSE, self |-> self]
    ELSE [ok |-> TRUE, self |-> [tag |-> "All", list |-> << >>]]

\* One turn of the loop of Parse for IncludeCppConfig (lines 162-233) on
\* directive d: ok, with the allow-list and the other fields as it leaves
\* them.
parse_directive(al, cfg, d) ==
  IF d.kind = "generate"
    THEN LET r == Allowlist_push(al, d.arg)
         IN  [ok |-> r.ok, allowlist |-> r.self, cpp_config |-> cfg]
  ELSE IF d.kind = "generate_pod"
    THEN LET r == Allowlist_push(al, d.arg)
         IN  [ok |-> r.ok, allowlist |-> r.self,
              cpp_config |-> [cfg EXCEPT !.pod_requests = Append(@, d.arg)]]
  ELSE IF d.kind = "pod"
    THEN [ok |-> TRUE, allowlist |-> al,
          cpp_config |-> [cfg EXCEPT !.pod_requests = Append(@, d.arg)]]
  ELSE IF d.kind = "block"
    THEN [ok |-> TRUE, allowlist |-> al,
          cpp_config |-> [cfg EXCEPT !.blocklist = Append(@, d.arg)]]
  ELSE IF d.kind = "subclass"
    THEN [ok |-> TRUE, allowlist |-> al,
          cpp_config |-> [cfg EXCEPT !.subclasses =
                            Append(@, [superclass |-> d.arg, subclass |-> d.arg2])]]
  ELSE IF d.kind = "generate_all"
    THEN LET r == Allowlist_set_all(al)
         IN  [ok |-> r.ok, allowlist |-> r.self, cpp_config |-> cfg]
  ELSE IF d.kind = "name"
    THEN [ok |-> TRUE, allowlist |-> al, cpp_config |-> [cfg EXCEPT !.mod_name = d.arg]]
  ELSE [ok |-> TRUE, allowlist |-> al,
        cpp_config |-> [cfg EXCEPT !.exclude_utilities = TRUE]]

\* get_makestring_name (lines 369-377).
get_makestring_name(cfg) ==
  "autocxx_make_string_" \o (IF cfg.mod_name = "" THEN "default" ELSE cfg.mod_name)

\* active_utilities (lines 327-333).
active_utilities(cfg) ==
  IF cfg.exclude_utilities THEN << >> ELSE <<get_makestring_name(cfg)>>

\* The three names a subclass adds to the list for bindgen (lines 315-321).
RECURSIVE SubclassNames(_)
SubclassNames(subclasses) ==
  IF subclasses = << >> THEN << >>
  ELSE LET sc == Head(subclasses)
       IN  <<sc.subclass \o "Cpp", sc.subclass, sc.superclass>>
             \o SubclassNames(Tail(subclasses))

\* bindgen_allowlist (lines 302-325): None, Some(items), or the unreachable
\* branch.
\* must_generate_list (lines 293-299): the explicit allow-list entries and
\* then the pod requests, or the pod requests alone.
must_generate_list(al, cfg) ==
  IF al.tag = "Specific" THEN al.list \o cfg.pod_requests ELSE cfg.pod_requests

\* Mutant of bindgen_allowlist: the pod requests are left out.
bindgen_allowlist_without_pod_requests(al, cfg) ==
  IF al.tag = "All" THEN [tag |-> "None", items |-> << >>]
  ELSE IF al.tag = "Specific"
    THEN [tag |-> "Some",
          items |-> al.list \o active_utilities(cfg) \o SubclassNames(cfg.subclasses)]
  ELSE [tag |-> "unreachable", items |-> << >>]

bindgen_allowlist(al, cfg) ==
  IF al.tag = "All" THEN [tag |-> "None", items |-> << >>]
  ELSE IF al.tag = "Specific"
    THEN [tag |-> "Some",
          items |-> al.list \o cfg.pod_requests \o active_utilities(cfg)
                      \o SubclassNames(cfg.subclasses)]
  ELSE [tag |-> "unreachable", items |-> << >>]

is_subclass_holder(cfg, id) ==
  \E k \in 1..Len(cfg.subclasses) : cfg.subclasses[k].subclass \o "Holder" = id

is_subclass_cpp(cfg, id) ==
  \E k \in 1..Len(cfg.subclasses) : cfg.subclasses[k].subclass \o "Cpp" = id

is_rust_fun(cfg, possible_fun) ==
  \E k \in 1..Len(cfg.extern_rust_funs) : cfg.extern_rust_funs[k] = possible_fun

is_on_blocklist(cfg, cpp_name) ==
  \E k \in 1..Len(cfg.blocklist) : cfg.blocklist[k] = cpp_name

\* Mutant of is_on_allowlist: a name on the block-list is not on the
\* allow-list.
is_on_allowlist_minus_blocklist(al, cfg, cpp_name) ==
  LET b == bindgen_allowlist(al, cfg)
  IN  [panic |-> b.tag = "unreachable",
       on |-> /\ b.tag # "unreachable"
              /\ ~is_on_blocklist(cfg, cpp_name)
              /\ \/ b.tag = "None"
                 \/ \E k \in 1..Len(b.items) : b.items[k] = cpp_name
                 \/ \E k \in 1..Len(active_utilities(cfg)) :
                      active_utilities(cfg)[k] = cpp_name
                 \/ is_subclass_holder(cfg, cpp_name)
                 \/ is_subclass_cpp(cfg, cpp_name)
                 \/ is_rust_fun(cfg, cpp_name)]

\* is_on_allowlist (lines 343-354); panic when bindgen_allowlist reaches its
\* unreachable branch.
is_on_allowlist(al, cfg, cpp_name) ==
  LET b == bindgen_allowlist(al, cfg)
  IN  [panic |-> b.tag = "unreachable",
       on |-> /\ b.tag # "unreachable"
              /\ \/ b.tag = "None"
                 \/ \E k \in 1..Len(b.items) : b.items[k] = cpp_name
                 \/ \E k \in 1..Len(active_utilities(cfg)) :
                      active_utilities(cfg)[k] = cpp_name
                 \/ is_subclass_holder(cfg, cpp_name)
                 \/ is_subclass_cpp(cfg, cpp_name)
                 \/ is_rust_fun(cfg, cpp_name)]

\* Mutant of confirm_complete: an unspecified list is accepted as it is.
confirm_complete_lenient(al, auto_allowlist) ==
  IF al.tag = "Unspecified" /\ ~auto_allowlist
    THEN [ok |-> FALSE, self |-> al]
    ELSE [ok |-> TRUE, self |-> al]

\* confirm_complete (lines 418-432).
confirm_complete(al, auto_allowlist) ==
  IF al.tag = "Unspecified"
    THEN IF auto_allowlist
           THEN [ok |-> TRUE, self |-> [tag |-> "Specific", list |-> << >>]]
           ELSE [ok |-> FALSE, self |-> al]
    ELSE [ok |-> TRUE, self |-> al]

InitConfig ==
  /\ PodIdle
  /\ safety = Idle
  /\ builder = Idle
  /\ cpplist = Idle
  /\ allowlist = Allowlist_default
  /\ cpp_config = NewCppConfig
  /\ cfg_pc = "parsing"
  /\ directives = << >>
  /\ asked = NoAnswer

\* Lines 162-233: the next directive is parsed; an error ends the parse.
ParseDirective ==
  /\ cfg_pc = "parsing"
  /\ Len(directives) < MaxDirectives
  /\ \E d \in Directives :
       LET r == parse_directive(allowlist, cpp_config, d)
       IN  /\ allowlist' = r.allowlist
           /\ cpp_config' = IF r.ok THEN r.cpp_config ELSE cpp_config
           /\ cfg_pc' = IF r.ok THEN "parsing" ELSE "failed"
           /\ directives' = Append(directives, [d |-> d, ok |-> r.ok])
  /\ UNCHANGED <<outside_config, asked>>

\* Lines 235-248: the input is empty, the configuration is returned.
EndOfInput ==
  /\ cfg_pc = "parsing"
  /\ cfg_pc' = "parsed"
  /\ UNCHANGED <<outside_config, allowlist, cpp_config, directives, asked>>

\* extern_rust_funs is filled in after the parse, by the code that finds
\* the extern Rust functions of the file.
AddExternRustFun ==
  /\ cfg_pc = "parsed"
  /\ cpp_config.extern_rust_funs = << >>
  /\ cpp_config' = [cpp_config EXCEPT !.extern_rust_funs = <<"rfun">>]
  /\ UNCHANGED <<outside_config, allowlist, cfg_pc, directives, asked>>

\* confirm_complete is called on the parsed configuration.
ConfirmComplete ==
  /\ cfg_pc = "parsed"
  /\ \E auto_allowlist \in BOOLEAN :
       LET r == confirm_complete(allowlist, auto_allowlist)
       IN  /\ allowlist' = r.self
           /\ cfg_pc' = IF r.ok THEN "complete" ELSE "incomplete"
           /\ directives' =
                Append(directives,
                       [d |-> Directive("confirm_complete",
                                        IF auto_allowlist THEN "true" ELSE "false", ""),
                        ok |-> r.ok])
  /\ UNCHANGED <<outside_config, cpp_config, asked>>

\* is_on_allowlist, bindgen_allowlist and must_generate_list are asked, the
\* first about a name, once confirm_complete has returned.
AskAllowlist ==
  /\ cfg_pc \in {"complete", "incomplete"}
  /\ \E name \in CppNames :
       LET a == is_on_allowlist(allowlist, cpp_config, name)
       IN  asked' = [name |-> name, at |-> cfg_pc, panic |-> a.panic, on |-> a.on,
                     bindgen |-> bindgen_allowlist(allowlist, cpp_config),
                     must |-> must_generate_list(allowlist, cpp_config)]
  /\ UNCHANGED <<outside_config, allowlist, cpp_config, cfg_pc, directives>>

NextConfig ==
  \/ ParseDirective
  \/ EndOfInput
  \/ AddExternRustFun
  \/ ConfirmComplete
  \/ AskAllowlist

SpecConfig == InitConfig /\ [][NextConfig]_vars

(***************************************************************************)
(* Parse for UnsafePolicy (parser/src/config.rs, lines 36-59): the content  *)
(* of a safety!(...) directive, as a stream of tokens.                      *)
(***************************************************************************)
\* The longest content of a safety directive.
MaxTokens == 2

Tok(kind, text) == [kind |-> kind, text |-> text]

TokUnsafe == Tok("keyword", "unsafe")

TokUnsafeFfi == Tok("ident", "unsafe_ffi")

Tokens ==
  { TokUnsafe, TokUnsafeFfi, Tok("ident", "safe"), Tok("keyword", "fn"),
    Tok("literal", "1") }

TokenStreams == UNION { [1..n -> Tokens] : n \in 0..MaxTokens }

PolicyOk(policy) == [tag |-> "Ok", value |-> policy, msg |-> ""]

PolicyErr(msg) == [tag |-> "Err", value |-> "", msg |-> msg]

NoPolicy == [tag |-> "none", value |-> "", msg |-> ""]

InitSafety ==
  /\ PodIdle
  /\ ConfigIdle
  /\ builder = Idle
  /\ cpplist = Idle
  /\ \E ts \in TokenStreams :
       safety = [pc |-> "start", tokens |-> ts, input |-> ts, r |-> NoPolicy,
                 ret |-> NoPolicy, outcome |-> NoPolicy]

\* Lines 38-40: Option<Token![unsafe]>; the keyword is consumed, and the
\* function returns at once.
ParseUnsafeToken ==
  /\ safety.pc = "start"
  /\ IF safety.input # << >> /\ Head(safety.input) = TokUnsafe
       THEN safety' = [safety EXCEPT !.input = Tail(@),
                                     !.ret = PolicyOk("AllFunctionsSafe"),
                                     !.pc = "returned"]
       ELSE safety' = [safety EXCEPT !.pc = "ident"]
  /\ UNCHANGED <<pod_vars, config_vars, builder, cpplist>>

\* Mutant of ParseIdent: any identifier is taken for unsafe_ffi.
ParseIdent_any_identifier ==
  /\ safety.pc = "ident"
  /\ IF safety.input # << >> /\ Head(safety.input).kind = "ident"
       THEN safety' = [safety EXCEPT !.input = Tail(@),
                                     !.r = PolicyOk("AllFunctionsSafe"),
                                     !.pc = "check"]
       ELSE safety' = [safety EXCEPT !.r = PolicyOk("AllFunctionsUnsafe"),
                                     !.pc = "check"]
  /\ UNCHANGED <<pod_vars, config_vars, builder, cpplist>>

\* Lines 41-50: Option<syn::Ident>; a keyword is no identifier.
ParseIdent ==
  /\ safety.pc = "ident"
  /\ IF safety.input # << >> /\ Head(safety.input).kind = "ident"
       THEN safety' = [safety EXCEPT !.input = Tail(@),
                                     !.r = IF Head(safety.input).text = "unsafe_ffi"
                                             THEN PolicyOk("AllFunctionsSafe")
                                             ELSE PolicyErr("expected unsafe_ffi"),
                                     !.pc = "check"]
       ELSE safety' = [safety EXCEPT !.r = PolicyOk("AllFunctionsUnsafe"),
                                     !.pc = "check"]
  /\ UNCHANGED <<pod_vars, config_vars, builder, cpplist>>

\* Lines 51-57: tokens are left, an error; else r.
CheckEmpty ==
  /\ safety.pc = "check"
  /\ safety' = [safety EXCEPT
                  !.ret = IF safety.input # << >>
                            THEN PolicyErr("unexpected tokens within safety directive")
                            ELSE safety.r,
                  !.pc = "returned"]
  /\ UNCHANGED <<pod_vars, config_vars, builder, cpplist>>

\* The caller of the parse function (args.parse() on the parenthesized
\* content at lines 221-224, parse_quote! in the tests): syn reports the
\* tokens that a successful parse function left in the buffer.
FinishParse ==
  /\ safety.pc = "returned"
  /\ safety' = [safety EXCEPT
                  !.outcome = IF safety.ret.tag = "Ok" /\ safety.input # << >>
                                THEN PolicyErr("unexpected token")
                                ELSE safety.ret,
                  !.pc = "done"]
  /\ UNCHANGED <<pod_vars, config_vars, builder, cpplist>>

NextSafety ==
  \/ ParseUnsafeToken
  \/ ParseIdent
  \/ CheckEmpty
  \/ FinishParse

SpecSafety == InitSafety /\ [][NextSafety]_vars

(***************************************************************************)
(* Builder::new (gen/build/src/lib.rs, lines 74-121).  What the file        *)
(* system, parse_file, include_dirs and generate_h_and_cxx return is the    *)
(* input: env.                                                              *)
(***************************************************************************)
\* The most include_cxx macros in a file, and the most file pairs
\* generate_h_and_cxx returns for one macro.
MaxMacros == 2

MaxPairs == 2

\* One include_cxx macro found by parse_file: whether include_dirs and
\* generate_h_and_cxx succeed, how many file pairs are generated, and
\* whether they can be written.
IncludeCpp(include_dirs_ok, generate_ok, pairs, writes_ok) ==
  [include_dirs_ok |-> include_dirs_ok, generate_ok |-> generate_ok,
   pairs |-> pairs, writes_ok |-> writes_ok]

IncludeCpps ==
  { IncludeCpp(FALSE, TRUE, 1, TRUE), IncludeCpp(TRUE, FALSE, 0, TRUE),
    IncludeCpp(TRUE, TRUE, 1, FALSE) }
    \cup { IncludeCpp(TRUE, TRUE, n, TRUE) : n \in 0..MaxPairs }

BuildEnvs ==
  [setup : {"ok", "no_directory", "no_cxx_h"},
   parse_ok : BOOLEAN,
   autocxxes : UNION { [1..n -> IncludeCpps] : n \in 0..MaxMacros }]

BuildErr(e) == [tag |-> "Err", error |-> e]

BuildOk == [tag |-> "Ok", error |-> ""]

InitBuilder ==
  /\ PodIdle
  /\ ConfigIdle
  /\ safety = Idle
  /\ cpplist = Idle
  /\ \E env \in BuildEnvs :
       builder = [pc |-> "setup", env |-> env, autocxxes |-> << >>, n |-> 1,
                  pending |-> 0, counter |-> 0, files |-> << >>,
                  ret |-> [tag |-> "none", error |-> ""]]

\* Lines 75-89: the directories are created and cxx.h is written.
SetUp ==
  /\ builder.pc = "setup"
  /\ builder' =
       IF builder.env.setup = "no_directory"
         THEN [builder EXCEPT !.pc = "done", !.ret = BuildErr("UnableToCreateDirectory")]
       ELSE IF builder.env.setup = "no_cxx_h"
         THEN [builder EXCEPT !.pc = "done", !.ret = BuildErr("FileWriteFail")]
       ELSE [builder EXCEPT !.pc = "parse"]
  /\ UNCHANGED <<pod_vars, config_vars, safety, cpplist>>

\* Lines 90-92: parse_file.
ParseFile ==
  /\ builder.pc = "parse"
  /\ builder' =
       IF builder.env.parse_ok
         THEN [builder EXCEPT !.pc = "loop", !.autocxxes = builder.env.autocxxes]
         ELSE [builder EXCEPT !.pc = "done", !.ret = BuildErr("ParseError")]
  /\ UNCHANGED <<pod_vars, config_vars, safety, cpplist>>

\* Lines 94-103: the next include_cpp: its include directories, then its
\* generated code.
TakeIncludeCpp ==
  /\ builder.pc = "loop"
  /\ builder.n <= Len(builder.autocxxes)
  /\ LET include_cpp == builder.autocxxes[builder.n]
     IN  builder' =
           IF ~include_cpp.include_dirs_ok
             THEN [builder EXCEPT !.pc = "done", !.ret = BuildErr("IncludeDirProblem")]
           ELSE IF ~include_cpp.generate_ok
             THEN [builder EXCEPT !.pc = "done", !.ret = BuildErr("InvalidCxx")]
           ELSE [builder EXCEPT !.pc = "write", !.pending = include_cpp.pairs]
  /\ UNCHANGED <<pod_vars, config_vars, safety, cpplist>>

\* Lines 104-111: the next file pair is written and counted; with none left
\* the loop goes on to the next include_cpp.
WriteFilePair ==
  /\ builder.pc = "write"
  /\ builder' =
       IF builder.pending = 0
         THEN [builder EXCEPT !.pc = "loop", !.n = @ + 1]
       ELSE IF ~builder.autocxxes[builder.n].writes_ok
         THEN [builder EXCEPT !.pc = "done", !.ret = BuildErr("FileWriteFail")]
       ELSE [builder EXCEPT !.counter = @ + 1,
                            !.files = Append(@, builder.counter),
                            !.pending = @ - 1]
  /\ UNCHANGED <<pod_vars, config_vars, safety, cpplist>>

\* Mutant of FinishBuild: the include_cpp macros are counted, not the files.
FinishBuild_counting_macros ==
  /\ builder.pc = "loop"
  /\ builder.n > Len(builder.autocxxes)
  /\ builder' = [builder EXCEPT
                   !.pc = "done",
                   !.ret = IF Len(builder.autocxxes) = 0
                             THEN BuildErr("NoIncludeCxxMacrosFound")
                             ELSE BuildOk]
  /\ UNCHANGED <<pod_vars, config_vars, safety, cpplist>>

\* Lines 113-120: no file was counted, an error; else the Builder.
FinishBuild ==
  /\ builder.pc = "loop"
  /\ builder.n > Len(builder.autocxxes)
  /\ builder' = [builder EXCEPT
                   !.pc = "done",
                   !.ret = IF builder.counter = 0
                             THEN BuildErr("NoIncludeCxxMacrosFound")
                             ELSE BuildOk]
  /\ UNCHANGED <<pod_vars, config_vars, safety, cpplist>>

NextBuilder ==
  \/ SetUp
  \/ ParseFile
  \/ TakeIncludeCpp
  \/ WriteFilePair
  \/ FinishBuild

SpecBuilder == InitBuilder /\ [][NextBuilder]_vars

(***************************************************************************)
(* CppList (engine/src/find_cpp_calls.rs).  A syntax tree node has its      *)
(* kind, its path (if the node has one), its children in source order, and  *)
(* for a function its inputs and output.                                    *)
(***************************************************************************)
\* The most items given to one CppList.
MaxItems == 2

NoPath == << >>

Seg(ident, arguments) == [ident |-> ident, arguments |-> arguments]

Node(kind, path, kids) ==
  [kind |-> kind, path |-> path, kids |-> kids, inputs |-> << >>, output |-> << >>]

\* Types.
TypePath(path) == Node("Type::Path", path, << >>)

TypeReference(elem) == Node("Type::Reference", NoPath, <<elem>>)

\* Patterns.
PatIdent == Node("Pat::Ident", NoPath, << >>)

PatPath(path) == Node("Pat::Path", path, << >>)

PatType(pat, ty) == Node("Pat::Type", NoPath, <<pat, ty>>)

\* Expressions.  A cast has its expression and its type, a struct literal
\* its path and the expressions of its fields, a match its scrutinee and
\* then the pattern and the body of each arm.
ExprPath(path) == Node("Expr::Path", path, << >>)

ExprLit == Node("Expr::Lit", NoPath, << >>)

ExprMacro == Node("Expr::Macro", NoPath, << >>)

ExprCall(func, args) == Node("Expr::Call", NoPath, <<func>> \o args)

ExprBinary(left, right) == Node("Expr::Binary", NoPath, <<left, right>>)

ExprCast(expr, ty) == Node("Expr::Cast", NoPath, <<expr, ty>>)

ExprStruct(path, fields) == Node("Expr::Struct", path, fields)

ExprMatch(expr, pat, body) == Node("Expr::Match", NoPath, <<expr, pat, body>>)

\* Statements.
StmtLocal(pat, init) == Node("Stmt::Local", NoPath, <<pat>> \o init)

StmtItem(item) == Node("Stmt::Item", NoPath, <<item>>)

StmtExpr(expr) == Node("Stmt::Expr", NoPath, <<expr>>)

StmtSemi(expr) == Node("Stmt::Semi", NoPath, <<expr>>)

\* Items.
ItemFn(sig_inputs, sig_output, stmts) ==
  [Node("Item::Fn", NoPath, stmts) EXCEPT !.inputs = sig_inputs, !.output = sig_output]

ItemMod(items) == Node("Item::Mod", NoPath, items)

ItemStruct == Node("Item::Struct", NoPath, << >>)

\* The paths of the tests: ffi::xxx, ffi::a::b::xxx, a path that does not
\* start with ffi, and a path with ffi::xxx as generic argument.
PathXxx == <<Seg("ffi", << >>), Seg("xxx", << >>)>>

PathInNs == <<Seg("ffi", << >>), Seg("a", << >>), Seg("b", << >>), Seg("xxx", << >>)>>

PathOther == <<Seg("other", << >>), Seg("xxx", << >>)>>

PathUniquePtr == <<Seg("cxx", << >>), Seg("UniquePtr", <<TypePath(PathXxx)>>)>>

Paths == { PathXxx, PathInNs, PathOther, PathUniquePtr }

\* fn bar() { <stmt> }
FnWith(stmt) == ItemFn(<< >>, << >>, <<stmt>>)

\* The items searched: each places a path at one site of a function.
ItemsWith(p) ==
  { FnWith(StmtExpr(ExprCall(ExprPath(p), << >>))),
    FnWith(StmtSemi(ExprBinary(ExprLit,
             ExprCall(ExprPath(<<Seg("foo", << >>)>>), <<ExprCall(ExprPath(p), << >>)>>)))),
    FnWith(StmtLocal(PatType(PatIdent, TypePath(p)),
                     <<ExprCall(ExprPath(<<Seg("bar", << >>)>>), << >>)>>)),
    FnWith(StmtLocal(PatIdent, <<ExprCall(ExprPath(p), << >>)>>)),
    ItemFn(<<PatType(PatIdent, TypeReference(TypePath(p)))>>, << >>, << >>),
    ItemFn(<< >>, <<TypePath(p)>>, << >>),
    ItemMod(<<FnWith(StmtExpr(ExprCall(ExprPath(p), << >>)))>>),
    ItemMod(<<ItemStruct, ItemMod(<<FnWith(StmtSemi(ExprCall(ExprPath(p), << >>)))>>)>>),
    FnWith(StmtItem(FnWith(StmtExpr(ExprCall(ExprPath(p), << >>))))),
    FnWith(StmtExpr(ExprCast(ExprLit, TypePath(p)))),
    FnWith(StmtExpr(ExprStruct(p, <<ExprLit>>))),
    FnWith(StmtExpr(ExprMatch(ExprLit, PatPath(p), ExprLit))) }

Items == { FnWith(StmtSemi(ExprMacro)), ItemStruct } \cup UNION { ItemsWith(p) : p \in Paths }

\* seg_iter.map(|seg| seg.ident.to_string()).join("::")
RECURSIVE JoinIdents(_)
JoinIdents(segments) ==
  IF segments = << >> THEN ""
  ELSE IF Len(segments) = 1 THEN segments[1].ident
  ELSE segments[1].ident \o "::" \o JoinIdents(Tail(segments))

\* The search functions give the strings they insert into the set.
RECURSIVE search_item(_), search_stmt(_), search_expr(_), search_pat(_),
          search_type(_), search_path(_), search_path_arguments(_)

\* Lines 267-298: the type of an array, reference, pointer or slice is
\* searched in its element, a path type in its path.
search_type(ty) ==
  IF ty.kind = "Type::Path" THEN search_path(ty.path)
  ELSE IF ty.kind = "Type::Reference" THEN search_type(ty.kids[1])
  ELSE {}

\* Lines 314-337: the types among the angle-bracketed arguments.
search_path_arguments(arguments) ==
  UNION { search_type(arguments[k]) : k \in 1..Len(arguments) }

\* Lines 68-79: the segments after ffi are joined.
search_path(path) ==
  (IF path # << >> /\ path[1].ident = "ffi"
     THEN { JoinIdents(Tail(path)) }
     ELSE {})
    \cup UNION { search_path_arguments(path[k].arguments) : k \in 1..Len(path) }

\* Lines 230-265.
search_pat(pat) ==
  IF pat.kind = "Pat::Path" THEN search_path(pat.path)
  ELSE IF pat.kind = "Pat::Type"
    THEN search_pat(pat.kids[1]) \cup search_type(pat.kids[2])
  ELSE {}

\* Lines 108-208: a cast and a match are searched in their expressions, a
\* struct literal in the expressions of its fields, a macro not at all.
search_expr(expr) ==
  IF expr.kind = "Expr::Path" THEN search_path(expr.path)
  ELSE IF expr.kind \in {"Expr::Macro", "Expr::Lit"} THEN {}
  ELSE IF expr.kind \in {"Expr::Call", "Expr::Binary", "Expr::Struct"}
    THEN UNION { search_expr(expr.kids[k]) : k \in 1..Len(expr.kids) }
  ELSE IF expr.kind = "Expr::Cast" THEN search_expr(expr.kids[1])
  ELSE IF expr.kind = "Expr::Match"
    THEN search_expr(expr.kids[1]) \cup search_expr(expr.kids[3])
  ELSE {}

\* Lines 95-106: the initialiser, then the pattern.
search_stmt(stmt) ==
  IF stmt.kind = "Stmt::Local"
    THEN (IF Len(stmt.kids) > 1 THEN search_expr(stmt.kids[2]) ELSE {})
           \cup search_pat(stmt.kids[1])
  ELSE IF stmt.kind = "Stmt::Item" THEN search_item(stmt.kids[1])
  ELSE search_expr(stmt.kids[1])

\* Lines 30-66: the body, the return type, then the inputs.
search_item(item) ==
  IF item.kind = "Item::Fn"
    THEN UNION { search_stmt(item.kids[k]) : k \in 1..Len(item.kids) }
           \cup UNION { search_type(item.output[k]) : k \in 1..Len(item.output) }
           \cup UNION { search_pat(item.inputs[k].kids[1])
                          \cup search_type(item.inputs[k].kids[2]) :
                            k \in 1..Len(item.inputs) }
  ELSE IF item.kind = "Item::Mod"
    THEN UNION { search_item(item.kids[k]) : k \in 1..Len(item.kids) }
  ELSE {}

InitCppList ==
  /\ PodIdle
  /\ ConfigIdle
  /\ safety = Idle
  /\ builder = Idle
  /\ cpplist = [pc |-> "search", set |-> {}, searched |-> {}]

\* CppList::search_item is called on one more item.
SearchItem ==
  /\ cpplist.pc = "search"
  /\ Cardinality(cpplist.searched) < MaxItems
  /\ \E item \in Items \ cpplist.searched :
       cpplist' = [cpplist EXCEPT !.set = @ \cup search_item(item),
                                  !.searched = @ \cup {item}]
  /\ UNCHANGED <<pod_vars, config_vars, safety, builder>>

NextCppList == SearchItem

SpecCppList == InitCppList /\ [][NextCppList]_vars

(***************************************************************************)
(* Vocabulary of the claims.                                                *)
(***************************************************************************)
Range(seq) == { seq[k] : k \in 1..Len(seq) }

Returned == pc = "done"

\* The dispatches of one pass, and those of struct declarations.
DispatchesOf(pass) == { d \in Range(dispatched) : d.pass = pass }

StructDispatches == { d \in Range(dispatched) : d.api.variant = "Struct" }

\* The declaration of a name: one of the batch, or the one the header's
\* templates give an instantiation.
Declared(qn) == qn \in StructNames(apis) \cup Insts

DeclOf(qn) ==
  IF qn \in StructNames(apis)
    THEN CHOOSE d \in Range(apis) : d.name.name = qn
    ELSE InstDecl(tenv, qn)

\* A type that may not be held by value in its own right: std::string, or a
\* struct with a destructor or copy/move constructor of its own.
IneligibleType(qn) == qn = nStr \/ (Declared(qn) /\ DeclOf(qn).nontrivial)

\* The struct holds, directly or through the structs it holds by value, a
\* field of an ineligible type.
RECURSIVE HoldsIneligible(_)
HoldsIneligible(fields) ==
  \E t \in HeldByValue(fields) :
    \/ IneligibleType(t)
    \/ Declared(t) /\ HoldsIneligible(DeclOf(t).fields)

(***************************************************************************)
(* C1.  If a by-value request of the configuration names a type the         *)
(* checker finds ineligible, analyze_pod_apis returns the configuration     *)
(* error before anything is dispatched: nothing is classified, the type     *)
(* converter is never called, and no result vector, partial or not, is      *)
(* returned.                                                                *)
(***************************************************************************)
PodRequestIneligible ==
  \E r \in config.pod_requests :
    \/ IneligibleType(r)
    \/ ~Declared(r)
    \/ HoldsIneligible(DeclOf(r).fields)

C1_ConfigErrorBeforeDispatch ==
  PodRequestIneligible =>
    /\ pc \in {"start", "done"}
    /\ dispatched = << >>
    /\ type_converter.calls = << >>
    /\ results = << >>
    /\ Returned => ret = [tag |-> "Err", value |-> << >>]

\* A batch of two declarations whose requested struct A holds std::string
\* through B: the run has ended with the configuration error.
C1_Witness ==
  /\ Returned
  /\ ret.tag = "Err"
  /\ Len(apis) = 2
  /\ nA \in config.pod_requests
  /\ nA \in StructNames(apis)
  /\ ~IneligibleType(nA)
  /\ HoldsIneligible(DeclOf(nA).fields)

(***************************************************************************)
(* C2 as stated.  A struct that holds, directly or transitively, a field of *)
(* an ineligible type is never classified Pod: its entry in the results, in *)
(* pass one as in pass two, has kind NonPod or NonPodNested.                 *)
(***************************************************************************)
C2_IneligibleNeverPod ==
  \A d \in StructDispatches :
    HoldsIneligible(d.api.fields) =>
      /\ Len(d.added) = 1
      /\ d.added[1].variant = "Struct"
      /\ d.added[1].analysis.kind \in {"NonPod", "NonPodNested"}

(***************************************************************************)
(* C2 amended.  A struct that holds, directly or transitively, a field of   *)
(* an ineligible type is never classified Pod, in pass one as in pass two:  *)
(* its entry has kind NonPod or NonPodNested, or, when the removal of its   *)
(* attributes fails, it is the error entry of the struct, with no kind.     *)
(***************************************************************************)
C2_IneligibleNonPodOrIgnored ==
  \A d \in StructDispatches :
    HoldsIneligible(d.api.fields) =>
      /\ Len(d.added) = 1
      /\ IF "bindgen_unused_template_param" \in d.api.attrs
           THEN /\ d.added[1].variant = "IgnoredItem"
                /\ d.added[1].name = d.api.name
                /\ d.added[1].analysis.kind = "none"
           ELSE /\ d.added[1].variant = "Struct"
                /\ d.added[1].analysis.kind \in {"NonPod", "NonPodNested"}

\* Both cases in one run: a struct of the batch that holds std::string only
\* through another struct, and a discovered struct classified in pass two
\* that holds std::string.
C2_Witness ==
  /\ Returned
  /\ \E d \in StructDispatches :
       /\ d.pass = 1
       /\ HoldsIneligible(d.api.fields)
       /\ \A t \in HeldByValue(d.api.fields) : ~IneligibleType(t)
       /\ d.added[1].analysis.kind = "NonPod"
  /\ \E d \in StructDispatches :
       /\ d.pass = 2
       /\ HoldsIneligible(d.api.fields)
       /\ d.added[1].analysis.kind = "NonPod"

\* Whether the type converter of this run converts every field of the struct.
AllFieldsConvert(api) ==
  \A k \in 1..Len(api.fields) :
    convert_type(TypeConverter_new(config, apis, tenv), api.fields[k],
                 api.name.name.ns).ok

\* The error entry of a declaration whose classification failed.
IsErrorEntry(e, api) ==
  /\ e.variant = "IgnoredItem"
  /\ e.name = api.name
  /\ e.analysis.kind = "none"

(***************************************************************************)
(* C3 as stated.  The kind is a total function of the checker's answer and  *)
(* of the conversion of the fields: every analysed struct gets Pod if       *)
(* is_pod(name) and every field converts, and otherwise NonPodNested if it  *)
(* is nested and NonPod if it is top-level.                                 *)
(***************************************************************************)
C3_KindTotal ==
  \A d \in StructDispatches :
    /\ Len(d.added) = 1
    /\ d.added[1].variant = "Struct"
    /\ d.added[1].analysis.kind =
         IF is_pod(byvalue_checker, d.api.name.name) /\ AllFieldsConvert(d.api)
           THEN "Pod"
           ELSE IF d.api.name.cpp_nested THEN "NonPodNested" ELSE "NonPod"

(***************************************************************************)
(* C3 amended.  When the removal of the struct's attributes fails,          *)
(* analyze_struct assigns no kind (the struct yields an error and no Struct *)
(* entry).  Otherwise it assigns Pod when is_pod(name) and every field      *)
(* converts; when is_pod(name) and a field does not convert it assigns no   *)
(* kind at all, again an error; when not is_pod(name) it assigns            *)
(* NonPodNested to a nested struct and NonPod to a top-level one, whether   *)
(* or not the fields would convert.  A nested struct that is eligible is    *)
(* Pod.                                                                     *)
(***************************************************************************)
C3_KindByCheckerAndNesting ==
  \A d \in StructDispatches :
    /\ Len(d.added) = 1
    /\ IF "bindgen_unused_template_param" \in d.api.attrs
         THEN IsErrorEntry(d.added[1], d.api)
         ELSE IF is_pod(byvalue_checker, d.api.name.name)
         THEN IF AllFieldsConvert(d.api)
                THEN /\ d.added[1].variant = "Struct"
                     /\ d.added[1].analysis.kind = "Pod"
                ELSE IsErrorEntry(d.added[1], d.api)
         ELSE /\ d.added[1].variant = "Struct"
              /\ d.added[1].analysis.kind =
                   IF d.api.name.cpp_nested THEN "NonPodNested" ELSE "NonPod"

\* One run with an eligible nested struct classified Pod and an eligible
\* struct whose second field does not convert.
C3_Witness ==
  /\ Returned
  /\ \E d \in StructDispatches :
       d.api.name.cpp_nested /\ d.added[1].analysis.kind = "Pod"
  /\ \E d \in StructDispatches :
       /\ is_pod(byvalue_checker, d.api.name.name)
       /\ ~AllFieldsConvert(d.api)
       /\ IsErrorEntry(d.added[1], d.api)

(***************************************************************************)
(* C4 as stated.  For every struct in the output, field_deps is exactly the *)
(* union over its fields of the types_encountered that convert_type gives   *)
(* for the field.                                                           *)
(***************************************************************************)
C4_FieldDepsOfEveryStruct ==
  \A e \in Range(results) :
    e.variant = "Struct" =>
      e.analysis.field_deps =
        UNION { convert_type(TypeConverter_new(config, apis, tenv), e.item.fields[k],
                             e.name.name.ns).types_encountered :
                  k \in 1..Len(e.item.fields) }

(***************************************************************************)
(* C4 amended.  For every Pod struct in the output, convert_type was called *)
(* once for each field, in order, and field_deps is exactly the union of    *)
(* the types_encountered sets those calls returned; for a NonPod or         *)
(* NonPodNested struct convert_type was not called and field_deps is empty. *)
(***************************************************************************)
C4_FieldDepsOfPodStructs ==
  \A d \in StructDispatches :
    (Len(d.added) = 1 /\ d.added[1].variant = "Struct") =>
      IF d.added[1].analysis.kind = "Pod"
        THEN /\ Len(d.calls) = Len(d.api.fields)
             /\ \A k \in 1..Len(d.calls) : d.calls[k].ok /\ d.calls[k].f = d.api.fields[k]
             /\ d.added[1].analysis.field_deps =
                  UNION { d.calls[k].types_encountered : k \in 1..Len(d.calls) }
        ELSE /\ d.calls = << >>
             /\ d.added[1].analysis.field_deps = {}

\* One run with a Pod struct whose two fields each contribute a name, and a
\* NonPod struct that has a field.
C4_Witness ==
  /\ Returned
  /\ \E d \in StructDispatches :
       /\ d.added[1].analysis.kind = "Pod"
       /\ Len(d.api.fields) = 2
       /\ Cardinality(d.added[1].analysis.field_deps) = 2
  /\ \E d \in StructDispatches :
       /\ d.added[1].analysis.kind = "NonPod"
       /\ d.api.fields # << >>

\* The declarations the type converter returned during a pass, as its trail
\* of calls has them.
DiscoveredIn(pass) ==
  UNION { UNION { Range(d.calls[k].extra_apis) : k \in 1..Len(d.calls) } :
            d \in DispatchesOf(pass) }

\* The dispatches of a pass, in order.
RECURSIVE SelectPass(_, _)
SelectPass(seq, pass) ==
  IF seq = << >> THEN << >>
  ELSE IF Head(seq).pass = pass
    THEN <<Head(seq).api>> \o SelectPass(Tail(seq), pass)
    ELSE SelectPass(Tail(seq), pass)

(***************************************************************************)
(* C5.  When the run gets past the checker: if pass two has discovered at   *)
(* least one declaration the run ends in the assertion failure and returns  *)
(* no result, and if it has discovered none the run returns Ok with the     *)
(* results; the declarations of pass two are never dropped silently and    *)
(* no third pass is started.                                                *)
(***************************************************************************)
C5_SecondDiscoveryAsserts ==
  /\ \A d \in Range(dispatched) : d.pass \in {1, 2}
  /\ (Returned /\ ret.tag # "Err") =>
       /\ Len(SelectPass(dispatched, 2)) = Len(batch2)
       /\ IF DiscoveredIn(2) # {}
            THEN ret = [tag |-> "panic", value |-> << >>]
            ELSE ret = [tag |-> "Ok", value |-> results]

\* Pass two has classified a discovered struct whose field names an
\* instantiation not seen before, and the run has ended.
C5_Witness ==
  /\ Returned
  /\ DiscoveredIn(2) # {}
  /\ more_extra_apis # << >>
  /\ ret.tag = "panic"

(***************************************************************************)
(* C6 as stated.  Pass two is run over exactly the declarations discovered  *)
(* in pass one, and in the final output each of them has its own            *)
(* classification: an entry of its variant, a struct with its kind.         *)
(***************************************************************************)
C6_ExtrasClassifiedInOutput ==
  (Returned /\ ret.tag = "Ok") =>
    /\ Range(SelectPass(dispatched, 2)) = { add_analysis(x) : x \in DiscoveredIn(1) }
    /\ Len(SelectPass(dispatched, 2)) = Cardinality(DiscoveredIn(1))
    /\ \A x \in DiscoveredIn(1) :
         \E k \in 1..Len(ret.value) :
           /\ ret.value[k].name = x.name
           /\ ret.value[k].variant = x.variant
           /\ x.variant = "Struct" =>
                ret.value[k].analysis.kind \in {"Pod", "NonPod", "NonPodNested"}

(***************************************************************************)
(* C6 amended.  Pass two is run over exactly the declarations discovered in *)
(* pass one, each dispatched once to the classifier of its variant, and     *)
(* when the run returns Ok each of them has exactly one entry in the final  *)
(* output, after the entries of pass one: its own classification, or, if    *)
(* its own classification failed, the error entry of that declaration.      *)
(***************************************************************************)
C6_ExtrasDispatchedInPassTwo ==
  Returned /\ ret.tag \in {"Ok", "panic"} =>
    /\ Range(SelectPass(dispatched, 2)) = { add_analysis(x) : x \in DiscoveredIn(1) }
    /\ Len(SelectPass(dispatched, 2)) = Cardinality(DiscoveredIn(1))
    /\ ret.tag = "Ok" =>
         \A x \in DiscoveredIn(1) :
           /\ Cardinality({ k \in 1..Len(ret.value) : ret.value[k].name = x.name }) = 1
           /\ \E k \in (Len(apis) + 1)..Len(ret.value) :
                /\ ret.value[k].name = x.name
                /\ IF x.variant = "Struct" /\ is_pod(byvalue_checker, x.name.name)
                        /\ ~AllFieldsConvert(x)
                     THEN IsErrorEntry(ret.value[k], x)
                     ELSE /\ ret.value[k].variant = x.variant
                          /\ x.variant = "Struct" =>
                               ret.value[k].analysis.kind \in {"Pod", "NonPod", "NonPodNested"}

\* The run returned Ok with two discovered declarations in its output, one
\* of them classified in pass two and one an error entry.
C6_Witness ==
  /\ Returned
  /\ ret.tag = "Ok"
  /\ Cardinality(DiscoveredIn(1)) = 2
  /\ \E k \in 1..Len(ret.value) :
       /\ ret.value[k].variant = "Struct"
       /\ ret.value[k].name.name \in Insts
  /\ \E k \in 1..Len(ret.value) :
       /\ ret.value[k].variant = "IgnoredItem"
       /\ ret.value[k].name.name \in Insts

\* What the classifiers give a declaration on its own: with a converter that
\* has concretised nothing and an empty result vector.
ClassifiedAlone(api) ==
  convert_one(api, << >>, byvalue_checker, TypeConverter_new(config, apis, tenv),
              << >>).results

\* The struct dispatches whose classification failed on a field conversion.
FailedDispatches ==
  { d \in StructDispatches : Len(d.added) = 1 /\ d.added[1].variant = "IgnoredItem" }

\* The failure of d is reported with the final identifier of the struct, and
\* every other declaration dispatched so far has the entry it has on its own.
FailureIsLocal(d) ==
  /\ d.added[1].name = d.api.name
  /\ d.added[1].ctx = d.api.name.name.id
  /\ \A o \in Range(dispatched) : o # d => o.added = ClassifiedAlone(o.api)
  /\ Returned => SelectPass(dispatched, 1) = apis

C8_PassTwoOnlyAppends ==
  [][ pc = "pass2" =>
        /\ Len(results') >= Len(results)
        /\ SubSeq(results', 1, Len(results)) = results
        /\ ret'.tag = "Ok" => SubSeq(ret'.value, 1, Len(results)) = results ]_vars

\* Pass two has added an entry behind the two entries of pass one.
C8_Witness ==
  /\ pc = "pass2"
  /\ i > 1
  /\ Len(apis) = 2
  /\ Len(results) > 2
  /\ results[1].analysis.kind = "Pod"

C10_AnyOrderSameSets ==
  /\ (pc = "pass1" /\ i > Len(apis)) =>
       /\ Range(results) = Range(InOrderPassOne.results)
       /\ Len(results) = Len(InOrderPassOne.results)
       /\ Range(extra_apis) = Range(InOrderPassOne.extra_apis)
       /\ Len(extra_apis) = Len(InOrderPassOne.extra_apis)
  /\ (pc = "pass2" /\ i > Len(batch2)) =>
       /\ Range(results) = Range(InOrderPassTwo.results)
       /\ Len(results) = Len(InOrderPassTwo.results)
       /\ Range(more_extra_apis) = Range(InOrderPassTwo.extra_apis)
       /\ Len(more_extra_apis) = Len(InOrderPassTwo.extra_apis)

\* Pass one has ended with the second struct of the batch classified before
\* the first, both Pod, and with a declaration discovered for the second
\* that the run in input order discovers for the first.
C10_Witness ==
  /\ pc = "pass1"
  /\ i > Len(apis)
  /\ Len(apis) = 2
  /\ results[1].name = apis[2].name
  /\ results[1].analysis.kind = "Pod"
  /\ results[2].analysis.kind = "Pod"
  /\ extra_apis # << >>
  /\ extra_apis # InOrderPassOne.extra_apis

\* The dispatches of functions, typedefs and enums.
PassThroughDispatches ==
  { d \in Range(dispatched) : d.api.variant \in {"Function", "Typedef", "Enum"} }

\* The dispatch asked nothing of the checker, made no convert_type call and
\* added nothing to the side list of its pass.
TouchedNothing(d) ==
  /\ d.pod_queries = << >>
  /\ d.calls = << >>
  /\ d.discovered = << >>

(***************************************************************************)
(* C11 as stated.  A function, typedef or enum, in pass one as in pass two, *)
(* yields exactly one entry of its variant with its name and no             *)
(* PodAnalysis, without the checker, the type converter or the side list.   *)
(***************************************************************************)
C11_PassThroughUnchanged ==
  \A d \in PassThroughDispatches :
    /\ Len(d.added) = 1
    /\ d.added[1].variant = d.api.variant
    /\ d.added[1].name = d.api.name
    /\ d.added[1].analysis.kind = "none"
    /\ TouchedNothing(d)

(***************************************************************************)
(* C11 amended.  A function or typedef, in pass one as in pass two, yields  *)
(* exactly one entry of its variant with its name, its item as it came and  *)
(* no PodAnalysis.  An enum yields exactly one entry: of its variant with   *)
(* its name, its attributes stripped and no PodAnalysis, or, when the       *)
(* removal of its attributes fails, the error entry of the enum with its    *)
(* final identifier as context.  None of them reaches the checker, the type *)
(* converter or the side list.                                              *)
(***************************************************************************)
C11_PassThroughOrIgnored ==
  \A d \in PassThroughDispatches :
    /\ Len(d.added) = 1
    /\ d.added[1].name = d.api.name
    /\ d.added[1].analysis.kind = "none"
    /\ TouchedNothing(d)
    /\ IF d.api.variant = "Enum" /\ "bindgen_unused_template_param" \in d.api.attrs
         THEN /\ d.added[1].variant = "IgnoredItem"
              /\ d.added[1].ctx = d.api.name.name.id
         ELSE /\ d.added[1].variant = d.api.variant
              /\ d.added[1].item.fields = d.api.fields
              /\ d.added[1].item.attrs =
                   IF d.api.variant = "Enum"
                     THEN d.api.attrs \ {"bindgen_original_name"}
                     ELSE d.api.attrs

\* An enum of the batch whose attributes could not be removed went through
\* pass one and a discovered typedef through pass two, and the run returned.
C11_Witness ==
  /\ Returned
  /\ ret.tag = "Ok"
  /\ \E d \in PassThroughDispatches :
       /\ d.pass = 1
       /\ d.api.variant = "Enum"
       /\ d.added[1].variant = "IgnoredItem"
  /\ \E d \in PassThroughDispatches :
       /\ d.pass = 2
       /\ d.api.variant = "Typedef"
       /\ d.added[1].variant = "Typedef"

\* The call of confirm_complete, once it is made.
ConfirmCall == directives[Len(directives)]

Finalized == cfg_pc = "complete"

(***************************************************************************)
(* C12.  confirm_complete(true) on an Unspecified list succeeds and sets it *)
(* to the empty explicit list, confirm_complete(false) on an Unspecified    *)
(* list fails, and on All or Specific it succeeds and leaves the list as it *)
(* is.  So after a successful confirm_complete the list is never            *)
(* Unspecified, and bindgen_allowlist and is_on_allowlist asked afterwards  *)
(* never reach the unreachable branch.                                      *)
(***************************************************************************)
C12_FinalizedNeverUnspecified ==
  [][ /\ (cfg_pc = "parsed" /\ cfg_pc' \in {"complete", "incomplete"}) =>
           IF allowlist.tag = "Unspecified"
             THEN IF directives'[Len(directives')].d.arg = "true"
                    THEN /\ cfg_pc' = "complete"
                         /\ allowlist' = [tag |-> "Specific", list |-> << >>]
                    ELSE cfg_pc' = "incomplete"
             ELSE /\ cfg_pc' = "complete"
                  /\ allowlist' = allowlist
      /\ cfg_pc' = "complete" => allowlist'.tag \in {"All", "Specific"}
      /\ asked'.at = "complete" =>
           /\ ~asked'.panic
           /\ asked'.bindgen.tag \in {"None", "Some"} ]_vars

\* A configuration with a by-value request and no generate directive was
\* finalized with confirm_complete(true), and is_on_allowlist answered for
\* the requested name.
C12_Witness ==
  /\ Finalized
  /\ Len(directives) >= 2
  /\ directives[1].d.kind = "pod"
  /\ ConfirmCall.d = Directive("confirm_complete", "true", "")
  /\ allowlist = [tag |-> "Specific", list |-> << >>]
  /\ asked.at = "complete"
  /\ asked.name = "B"
  /\ asked.on

\* What the directives parsed so far did: a name was pushed (generate!,
\* generate_pod!), 'all' was set (generate_all!).
IsPush(step) == step.d.kind \in {"generate", "generate_pod"}

IsSetAll(step) == step.d.kind = "generate_all"

Pushed(hist) == \E k \in 1..Len(hist) : IsPush(hist[k]) /\ hist[k].ok

AllSet(hist) == \E k \in 1..Len(hist) : IsSetAll(hist[k]) /\ hist[k].ok

(***************************************************************************)
(* C13.  In every sequence of directives an explicit name and 'all' are     *)
(* mutually exclusive: a push after a set_all fails, a set_all after a push *)
(* fails, the failing operation leaves the allow-list as it was, and the    *)
(* list never returns to Unspecified once it is All or Specific.            *)
(***************************************************************************)
C13_NamesAndAllExclusive ==
  [][ /\ (cfg_pc = "parsing" /\ Len(directives') = Len(directives) + 1) =>
           LET step == directives'[Len(directives')]
           IN  /\ (IsPush(step) /\ AllSet(directives)) => ~step.ok
               /\ (IsSetAll(step) /\ Pushed(directives)) => ~step.ok
               /\ ~step.ok => (allowlist' = allowlist /\ cfg_pc' = "failed")
               /\ ~(Pushed(directives') /\ AllSet(directives'))
      /\ allowlist.tag # "Unspecified" => allowlist'.tag # "Unspecified" ]_vars

\* generate_all! was accepted and the generate! that followed was refused:
\* the list is still All.
C13_Witness ==
  /\ cfg_pc = "failed"
  /\ Len(directives) = 2
  /\ IsSetAll(directives[1]) /\ directives[1].ok
  /\ IsPush(directives[2]) /\ ~directives[2].ok
  /\ allowlist = [tag |-> "All", list |-> << >>]

\* What the user wrote, as the history of directives has it.
ArgsOf(kinds) ==
  { directives[k].d.arg :
      k \in { j \in 1..Len(directives) : directives[j].d.kind \in kinds /\ directives[j].ok } }

GeneratedNames == ArgsOf({"generate", "generate_pod"})

PodRequestNames == ArgsOf({"generate_pod", "pod"})

SubclassIdents ==
  { directives[k].d.arg2 :
      k \in { j \in 1..Len(directives) : directives[j].d.kind = "subclass" } }

SubclassDerivedNames ==
  SubclassIdents \cup ArgsOf({"subclass"})
    \cup { sub \o "Cpp" : sub \in SubclassIdents }
    \cup { sub \o "Holder" : sub \in SubclassIdents }

\* The name of the utility of the module, unless utilities are excluded.
ActiveUtilityNames ==
  IF ArgsOf({"exclude_utilities"}) # {} THEN {}
  ELSE IF ArgsOf({"name"}) = {} THEN {"autocxx_make_string_default"}
  ELSE { "autocxx_make_string_" \o
           directives[CHOOSE k \in 1..Len(directives) :
                        /\ directives[k].d.kind = "name"
                        /\ \A j \in (k + 1)..Len(directives) :
                             directives[j].d.kind # "name"].d.arg }

ExternRustFunNames == Range(cpp_config.extern_rust_funs)

BlockedNames == ArgsOf({"block"})

(***************************************************************************)
(* C14.  On a finalized configuration is_on_allowlist(name) is true for     *)
(* every name with generate_all; with an explicit list it is true for every *)
(* name given to generate! or generate_pod!, and false for a name that is   *)
(* no explicit entry, by-value request, active utility name,                *)
(* subclass-derived name or extern Rust function; whether the name is on    *)
(* the block-list makes no difference to the answer.                        *)
(***************************************************************************)
C14_OnAllowlist ==
  asked.at = "complete" =>
    /\ ~asked.panic
    /\ AllSet(directives) => asked.on
    /\ ~AllSet(directives) =>
         /\ asked.name \in GeneratedNames => asked.on
         /\ asked.on <=>
              asked.name \in GeneratedNames \cup PodRequestNames \cup ActiveUtilityNames
                               \cup SubclassDerivedNames \cup ExternRustFunNames

\* A name given to generate! and to block! is on the allow-list of the
\* finalized configuration.
C14_Witness ==
  /\ asked.at = "complete"
  /\ asked.name = "A"
  /\ asked.name \in GeneratedNames
  /\ asked.name \in BlockedNames
  /\ is_on_blocklist(cpp_config, asked.name)
  /\ asked.on

AllStepsSucceed(env) ==
  /\ env.setup = "ok"
  /\ env.parse_ok
  /\ \A k \in 1..Len(env.autocxxes) :
       /\ env.autocxxes[k].include_dirs_ok
       /\ env.autocxxes[k].generate_ok
       /\ env.autocxxes[k].writes_ok

RECURSIVE PairsGenerated(_)
PairsGenerated(autocxxes) ==
  IF autocxxes = << >> THEN 0
  ELSE Head(autocxxes).pairs + PairsGenerated(Tail(autocxxes))

RECURSIVE PathsIn(_)
PathsIn(node) ==
  (IF node.path = NoPath THEN {} ELSE {node.path})
    \cup UNION { UNION { PathsIn(node.path[k].arguments[j]) :
                           j \in 1..Len(node.path[k].arguments) } :
                   k \in 1..Len(node.path) }
    \cup UNION { PathsIn(node.kids[k]) : k \in 1..Len(node.kids) }
    \cup UNION { PathsIn(node.inputs[k]) : k \in 1..Len(node.inputs) }
    \cup UNION { PathsIn(node.output[k]) : k \in 1..Len(node.output) }

\* The names of the paths of the searched items that start with ffi: the
\* remaining segments joined by "::".
FfiNamesIn(items) ==
  { JoinIdents(Tail(p)) :
      p \in { q \in UNION { PathsIn(item) : item \in items } : q[1].ident = "ffi" } }

(***************************************************************************)
(* C17 as stated.  After search_item on function items and inline modules  *)
(* of functions, the set holds, for every path that starts with ffi and     *)
(* occurs in a statement or expression of a body, a let type annotation, a  *)
(* parameter type, a return type or a generic argument of such a path or    *)
(* type, the remaining segments joined by "::"; and paths that do not start *)
(* with ffi add nothing.                                                    *)
(***************************************************************************)
C17_EveryFfiPathRecorded ==
  cpplist.pc = "search" => cpplist.set = FfiNamesIn(cpplist.searched)

\* A function whose body is the struct literal ffi::xxx { .. } was searched,
\* and the set is empty.
C17_Witness ==
  /\ cpplist.pc = "search"
  /\ cpplist.searched = { FnWith(StmtExpr(ExprStruct(PathXxx, <<ExprLit>>))) }
  /\ cpplist.set = {}

\* The reserved marker of an injected base-class slot: _base.
BaseMarker == <<"_", "b", "a", "s", "e">>

\* The fields that are base-class slots: named, the name beginning with the
\* marker, and of path type.
BaseSlots(fields) ==
  { k \in 1..Len(fields) :
      /\ fields[k].tk = "Path"
      /\ \E rest \in 0..Len(fields[k].ident) :
           /\ Len(fields[k].ident) = Len(BaseMarker) + rest
           /\ \A c \in 1..Len(BaseMarker) : fields[k].ident[c] = BaseMarker[c] }

\* The Struct entries of the output.
OutputStructs ==
  IF ret.tag = "Ok"
    THEN { ret.value[k] : k \in { j \in 1..Len(ret.value) : ret.value[j].variant = "Struct" } }
    ELSE {}

(***************************************************************************)
(* C18.  For every struct in the output, whatever its kind, bases is        *)
(* exactly the set of qualified type names of the fields whose identifier   *)
(* starts with "_base" and whose type is a path type; unnamed fields,       *)
(* fields with other identifiers and fields of non-path type contribute     *)
(* nothing.                                                                 *)
(***************************************************************************)
C18_BasesAreBaseSlots ==
  \A e \in OutputStructs :
    e.analysis.bases = { e.item.fields[k].qn : k \in BaseSlots(e.item.fields) }

\* An output with a struct that is not Pod and has one base slot, and besides
\* it a field named _base_1 that is a pointer.
C18_Witness ==
  \E e \in OutputStructs :
       /\ e.analysis.kind # "Pod"
       /\ e.analysis.bases = {nB}
       /\ \E k \in 1..Len(e.item.fields) :
            e.item.fields[k].tk = "Ptr" /\ StartsWithBase(e.item.fields[k].ident)

\* How often a declaration of the given name was dispatched in a pass.
TimesDispatched(name, pass) ==
  Cardinality({ k \in 1..Len(dispatched) :
                  dispatched[k].pass = pass /\ dispatched[k].api.name = name })

\* Every dispatch so far belongs to pass one or pass two and added exactly
\* one entry to the results, and no declaration was dispatched twice.
DispatchedAtMostOnce ==
  /\ \A d \in Range(dispatched) : d.pass \in {1, 2} /\ Len(d.added) = 1
  /\ Len(results) = Len(dispatched)
  /\ \A j, k \in 1..Len(dispatched) :
       dispatched[j].api.name = dispatched[k].api.name => j = k

\* The steps a run can still take are bounded by this number: the passes
\* still to come, each counted as more steps than a pass can have, and the
\* declarations left in the batch of the pass under way.
StepsLeft ==
  LET longest == Len(apis) + Cardinality(Insts) + 1
  IN  IF pc = "start" THEN 3 * longest
      ELSE IF pc = "pass1" THEN 2 * longest + (Len(apis) + 1 - i)
      ELSE IF pc = "pass2" THEN longest + (Len(batch2) + 1 - i)
      ELSE 0

\* The run is at a point where one of its steps can be taken: the guards of
\* BuildChecker, PassOneStep, LiftExtraApis, PassTwoStep and AssertAndReturn.
HasNextStep ==
  \/ pc = "start"
  \/ pc = "pass1" /\ i <= Len(apis)
  \/ pc = "pass1" /\ i > Len(apis)
  \/ pc = "pass2" /\ i <= Len(batch2)
  \/ pc = "pass2" /\ i > Len(batch2)

\* Every step of the run uses up one of the steps left, and a run that has
\* not returned has a step to take.
RunEnds ==
  /\ StepsLeft' \in Nat
  /\ StepsLeft' < StepsLeft
  /\ ~Returned' => HasNextStep'

\* What the claim says of a run that has returned.
EveryDeclarationDispatched ==
  Returned =>
    /\ \A k \in 1..Len(apis) :
         /\ TimesDispatched(apis[k].name, 1) = 1
         /\ TimesDispatched(apis[k].name, 2) = 0
    /\ \A x \in DiscoveredIn(1) \cup DiscoveredIn(2) :
         /\ TimesDispatched(x.name, 1) = 0
         /\ TimesDispatched(x.name, 2) = 1
    /\ ret.tag = "Ok"
    /\ Len(ret.value) = Len(dispatched)

\* What holds of a run that has returned.
DispatchedUnlessCutShort ==
  Returned =>
    IF ret.tag = "Err"
      THEN dispatched = << >>
      ELSE /\ \A k \in 1..Len(apis) :
                /\ TimesDispatched(apis[k].name, 1) = 1
                /\ TimesDispatched(apis[k].name, 2) = 0
           /\ \A x \in DiscoveredIn(1) :
                /\ TimesDispatched(x.name, 1) = 0
                /\ TimesDispatched(x.name, 2) = 1
           /\ Len(dispatched) = Len(apis) + Cardinality(DiscoveredIn(1))
           /\ \A x \in DiscoveredIn(2) :
                TimesDispatched(x.name, 1) + TimesDispatched(x.name, 2) = 0
           /\ IF DiscoveredIn(2) = {}
                THEN ret.tag = "Ok" /\ Len(ret.value) = Len(dispatched)
                ELSE ret.tag = "panic"

(***************************************************************************)
(* C19 as stated.  Every declaration of the input batch is dispatched       *)
(* exactly once, in pass one, and every discovered declaration exactly      *)
(* once, in pass two; no declaration is dispatched in both passes, at most  *)
(* two passes run, each dispatched declaration contributes exactly one      *)
(* entry to the output, and the run always terminates.                      *)
(***************************************************************************)
C19_AllDispatchedOnce ==
  [][DispatchedAtMostOnce' /\ RunEnds /\ EveryDeclarationDispatched']_vars

(***************************************************************************)
(* C19 amended.  When the construction of the checker fails nothing is      *)
(* dispatched.  Otherwise every declaration of the input batch is           *)
(* dispatched exactly once, in pass one, and every declaration discovered   *)
(* in pass one exactly once, in pass two; no declaration is dispatched in   *)
(* both passes, at most two passes run, and each dispatch adds exactly one  *)
(* entry to the results.  A declaration discovered in pass two is never     *)
(* dispatched: the closing assertion fails and the run ends without an      *)
(* output; otherwise the output has exactly one entry for each dispatched   *)
(* declaration.  The run always ends: each step uses up one of a bounded    *)
(* number of steps.                                                         *)
(***************************************************************************)
C19_DispatchedOnceInTwoPasses ==
  [][DispatchedAtMostOnce' /\ RunEnds /\ DispatchedUnlessCutShort']_vars

\* A run that returned Ok after two dispatches in pass one and one in pass
\* two.
C19_Witness ==
  /\ Returned
  /\ ret.tag = "Ok"
  /\ Cardinality(DispatchesOf(1)) = 2
  /\ Cardinality(DispatchesOf(2)) >= 1

(***************************************************************************)
(* C20.  For a struct that the checker reports as not by-value eligible,    *)
(* analyze_struct never calls the type converter: its field_deps is the     *)
(* empty set whatever its fields are, it adds nothing to the side list of   *)
(* extra declarations, and it cannot fail with a field-conversion error     *)
(* (it yields its Struct entry unless the removal of its attributes         *)
(* fails); so only structs the checker calls Pod cause new declarations to  *)
(* be discovered, in either pass.                                           *)
(***************************************************************************)
C20_IneligibleNeverConverts ==
  /\ \A d \in StructDispatches :
       ~is_pod(byvalue_checker, d.api.name.name) =>
         /\ d.calls = << >>
         /\ d.discovered = << >>
         /\ Len(d.added) = 1
         /\ IF "bindgen_unused_template_param" \in d.api.attrs
              THEN IsErrorEntry(d.added[1], d.api)
              ELSE /\ d.added[1].variant = "Struct"
                   /\ d.added[1].analysis.kind # "Pod"
                   /\ d.added[1].analysis.field_deps = {}
  /\ \A d \in Range(dispatched) :
       d.discovered # << >> =>
         /\ d.api.variant = "Struct"
         /\ is_pod(byvalue_checker, d.api.name.name)

\* A struct that is not eligible got its Struct entry in pass one although it
\* has a field of array type and a field naming an instantiation, and an
\* instantiation that is not eligible got its entry in pass two.
C20_Witness ==
  /\ \E d \in StructDispatches :
       /\ d.pass = 1
       /\ ~is_pod(byvalue_checker, d.api.name.name)
       /\ d.added[1].variant = "Struct"
       /\ \E k \in 1..Len(d.api.fields) : d.api.fields[k].tk = "Array"
       /\ \E k \in 1..Len(d.api.fields) :
            d.api.fields[k].tk = "Path" /\ d.api.fields[k].qn \in Insts
  /\ \E d \in StructDispatches :
       /\ d.pass = 2
       /\ ~is_pod(byvalue_checker, d.api.name.name)
       /\ d.api.fields # << >>
       /\ d.added[1].variant = "Struct"

\* The struct dispatches that failed on the conversion of a field: the last
\* convert_type call of the dispatch returned an error.
FieldFailures ==
  { d \in StructDispatches : d.calls # << >> /\ ~d.calls[Len(d.calls)].ok }

\* The extra declarations the calls before the last one returned, in order.
RECURSIVE ExtrasBefore(_, _)
ExtrasBefore(calls, k) ==
  IF k <= 1 THEN << >>
  ELSE ExtrasBefore(calls, k - 1) \o calls[k - 1].extra_apis

\* The failing dispatch d converted its fields in order up to the failing
\* one and no field after it, the extra declarations of the fields before it
\* are on the side list, and the struct has an error entry and no Struct
\* entry.
FailedAtFieldK(d) ==
  /\ Len(d.calls) <= Len(d.api.fields)
  /\ \A j \in 1..Len(d.calls) :
       /\ d.calls[j].f = d.api.fields[j]
       /\ j < Len(d.calls) => d.calls[j].ok
  /\ d.discovered = ExtrasBefore(d.calls, Len(d.calls))
  /\ Len(d.added) = 1
  /\ IsErrorEntry(d.added[1], d.api)
  /\ \A k \in 1..Len(results) :
       results[k].variant = "Struct" => results[k].name # d.api.name

\* The declaration x has exactly one entry in the output.
InOutput(x) ==
  /\ ret.tag = "Ok"
  /\ Cardinality({ k \in 1..Len(ret.value) : ret.value[k].name = x.name }) = 1

(***************************************************************************)
(* C21 as stated.  If converting field k of an eligible struct fails, the   *)
(* extra declarations returned for fields 1..k-1 have already been appended *)
(* to the side list and are still classified in pass two and emitted into   *)
(* the output, although the struct itself produces a per-declaration error  *)
(* and no Struct entry; fields after k are never converted.                 *)
(***************************************************************************)
C21_EarlierExtrasInOutput ==
  \A d \in FieldFailures :
    /\ is_pod(byvalue_checker, d.api.name.name)
    /\ FailedAtFieldK(d)
    /\ Returned =>
         \A x \in Range(d.discovered) :
           TimesDispatched(x.name, 2) = 1 /\ InOutput(x)

(***************************************************************************)
(* C21 amended.  If converting field k of an eligible struct fails, the     *)
(* extra declarations returned for fields 1..k-1 have already been appended *)
(* to the side list of the pass, the struct itself produces a               *)
(* per-declaration error and no Struct entry, and fields after k are never  *)
(* converted.  When the struct belongs to pass one, those declarations are  *)
(* dispatched in pass two, and they are in the output unless pass two       *)
(* discovers a further declaration, in which case the closing assertion     *)
(* fails and there is no output.  When the struct belongs to pass two,      *)
(* those declarations are never dispatched and the closing assertion        *)
(* fails.                                                                   *)
(***************************************************************************)
C21_EarlierExtrasKept ==
  \A d \in FieldFailures :
    /\ is_pod(byvalue_checker, d.api.name.name)
    /\ FailedAtFieldK(d)
    /\ Returned =>
         \A x \in Range(d.discovered) :
           IF d.pass = 1
             THEN /\ TimesDispatched(x.name, 2) = 1
                  /\ IF DiscoveredIn(2) = {} THEN InOutput(x) ELSE ret.tag = "panic"
             ELSE /\ TimesDispatched(x.name, 1) + TimesDispatched(x.name, 2) = 0
                  /\ ret.tag = "panic"

\* A run that returned Ok: a struct of pass one failed on its second field
\* after its first field had discovered an instantiation, which has its
\* Struct entry in the output.
C21_Witness ==
  /\ Returned
  /\ ret.tag = "Ok"
  /\ \E d \in FieldFailures :
       /\ d.pass = 1
       /\ Len(d.calls) = 2
       /\ Len(d.discovered) = 1
       /\ \E k \in 1..Len(ret.value) :
            /\ ret.value[k].name = d.discovered[1].name
            /\ ret.value[k].variant = "Struct"

(***************************************************************************)
(* C22.  For every configuration reached by a sequence of directives and    *)
(* then successfully finalized by confirm_complete, must_generate_list      *)
(* yields the explicit allow-list entries and the pod requests, or the pod  *)
(* requests alone under generate_all, and every name it yields satisfies    *)
(* is_on_allowlist; a pod!-only request is on the allow-list without any    *)
(* generate! directive.                                                     *)
(***************************************************************************)
C22_MustGenerateOnAllowlist ==
  asked.at = "complete" =>
    /\ ~asked.panic
    /\ Range(asked.must) =
         (IF AllSet(directives) THEN {} ELSE GeneratedNames) \cup PodRequestNames
    /\ asked.name \in Range(asked.must) => asked.on

\* The configuration was finalized after pod!("B") with no generate! and no
\* generate_all!, and B, which must_generate_list yields, is on the
\* allow-list.
C22_Witness ==
  /\ asked.at = "complete"
  /\ asked.name = "B"
  /\ asked.must = <<"B">>
  /\ GeneratedNames = {}
  /\ ~AllSet(directives)
  /\ asked.on

====
